---- MODULE Spec2Model ----
(***************************************************************************)
(* kintone-effect-schema: empty-value normalization (src/decoders.ts) and  *)
(* write validation (validators.ts, found at the end of                    *)
(* src/utils/form-config-to-effect-schema.ts).                             *)
(*                                                                         *)
(* The library keeps no state of its own.  The state of the model is the   *)
(* JavaScript heap holding the caller's objects and the objects the        *)
(* library allocates, the argument the caller holds, and the last call     *)
(* with its outcome (returned value or thrown error).                      *)
(***************************************************************************)
EXTENDS Integers, Sequences, FiniteSets, TLC

VARIABLES heap, input, call

vars == <<heap, input, call>>

(***************************************************************************)
(* Bounds of the model.                                                    *)
(***************************************************************************)
\* objects the library may create before the calls that create one stop
MaxHeap == 3
\* entries of a record handed to validateRecordForWrite
MaxFields == 2
\* largest array-index key ("0", "1", ...) a record may use
MaxIndexKey == 2

\* the longest field code the caller spells out of single characters
MaxCodeLen == 2

(***************************************************************************)
(* JavaScript values.  The objects handed to the library and the objects   *)
(* it creates live in the heap and are held by reference; arrays, and the  *)
(* plain objects nested inside a value (a user, a file, a subtable row),   *)
(* are held by content.                                                    *)
(***************************************************************************)
Undefined == [kind |-> "undefined"]

Null == [kind |-> "null"]

Str(s) == [kind |-> "string", str |-> s]

Arr(items) == [kind |-> "array", items |-> items]

Bool(b) == [kind |-> "boolean", bool |-> b]

Num(n) == [kind |-> "number", num |-> n]

\* a plain object held by content: its own properties
Inline(props) == [kind |-> "inline", props |-> props]

Ref(i) == [kind |-> "object", ref |-> i]

\* a truthiness under which null passes the guard !field
Truthy_Always(v) == TRUE

\* !v is false
Truthy(v) ==
    CASE v.kind = "undefined" -> FALSE
      [] v.kind = "null" -> FALSE
      [] v.kind = "string" -> v.str # ""
      [] v.kind = "boolean" -> v.bool
      [] v.kind = "number" -> v.num # 0
      [] OTHER -> TRUE

\* typeof v
TypeOf(v) ==
    CASE v.kind = "undefined" -> "undefined"
      [] v.kind = "string" -> "string"
      [] v.kind = "boolean" -> "boolean"
      [] v.kind = "number" -> "number"
      [] OTHER -> "object"

\* Array.isArray(v)
IsArray(v) == v.kind = "array"

(***************************************************************************)
(* An object is its list of own properties in insertion order.             *)
(***************************************************************************)
Prop(k, v) == [key |-> k, val |-> v]

HasOwn(obj, k) == \E i \in 1..Len(obj) : obj[i].key = k

\* obj[k] on an object of the heap
GetOwn(obj, k) ==
    IF HasOwn(obj, k)
    THEN obj[CHOOSE i \in 1..Len(obj) : obj[i].key = k].val
    ELSE Undefined

\* The prototype of an object of the heap, when it is not Object.prototype,
\* is kept in its list under a name no property has.
ProtoSlot == "[[Prototype]]"

\* Object.prototype
ObjectPrototype == [kind |-> "prototype"]

\* the own properties of an object of the heap
Own(obj) == SelectSeq(obj, LAMBDA q : q.key # ProtoSlot)

\* v[k] on a value that is not null or undefined: an own property, else the
\* property of the prototype; '__proto__' is the accessor of Object.prototype
\* and reads the prototype.  Arrays and strings have no property the library
\* reads.
RECURSIVE Get(_, _, _)
Get(h, v, k) ==
    CASE v.kind = "object" ->
           LET obj == h[v.ref]
               proto == GetOwn(obj, ProtoSlot)
           IN  IF HasOwn(obj, k) THEN GetOwn(obj, k)
               ELSE IF ~HasOwn(obj, ProtoSlot)
               THEN IF k = "__proto__" THEN ObjectPrototype ELSE Undefined
               ELSE IF proto = Null THEN Undefined
               ELSE IF k = "__proto__" THEN proto
               ELSE Get(h, proto, k)
      [] v.kind = "inline" ->
           IF HasOwn(v.props, k) THEN GetOwn(v.props, k)
           ELSE IF k = "__proto__" THEN ObjectPrototype ELSE Undefined
      [] OTHER -> Undefined

\* the own properties of an object
PropsOf(h, v) == IF v.kind = "inline" THEN v.props ELSE Own(h[v.ref])

\* { ...obj, [k]: v }
\* an object literal that forgets the spread: { value: v }
SpreadWith_ValueOnly(obj, k, v) == <<Prop(k, v)>>

SpreadWith(obj, k, v) ==
    IF HasOwn(obj, k)
    THEN [i \in 1..Len(obj) |-> IF obj[i].key = k THEN Prop(k, v) ELSE obj[i]]
    ELSE Append(obj, Prop(k, v))

\* obj[k] = v on an object of the heap.  Without an own property '__proto__'
\* the key '__proto__' reaches the setter of Object.prototype, which makes an
\* object or null the prototype, ignores every other value, and creates no
\* property.
AssignProp(obj, k, v) ==
    IF k # "__proto__" \/ HasOwn(obj, "__proto__")
           \/ (HasOwn(obj, ProtoSlot) /\ GetOwn(obj, ProtoSlot) = Null)
    THEN SpreadWith(obj, k, v)
    ELSE IF v.kind \in {"object", "inline", "array", "null"}
    THEN SpreadWith(obj, ProtoSlot, v)
    ELSE obj

\* a new object on the heap and the reference to it
Alloc(h, obj) == [heap |-> Append(h, obj), value |-> Ref(Len(h) + 1)]

\* the i-th string of "0", "1", ..., the canonical array indices
IndexKey(i) == ToString(i - 1)

IsIndexKey(k) == \E i \in 1..(MaxIndexKey + 1) : IndexKey(i) = k

\* Object.entries(obj): array-index keys in ascending numeric order, then
\* the other string keys in insertion order
ObjectEntries(obj) ==
    LET present(i) == HasOwn(obj, IndexKey(i))
        slots == SelectSeq([i \in 1..(MaxIndexKey + 1) |-> i], present)
        indexed == [j \in 1..Len(slots) |->
                       obj[CHOOSE i \in 1..Len(obj) : obj[i].key = IndexKey(slots[j])]]
        named(p) == ~IsIndexKey(p.key)
    IN  indexed \o SelectSeq(obj, named)

(***************************************************************************)
(* Outcomes of a call.                                                     *)
(***************************************************************************)
Return(v) == [kind |-> "return", value |-> v]

Throw(e) == [kind |-> "throw", error |-> e]

\* const { type, value } = field, with field null or undefined
TypeError == [name |-> "TypeError"]

\* the error of Schema.decodeUnknownSync
ParseError == [name |-> "ParseError"]

KintoneValidationError(fieldType, message) ==
    [name |-> "KintoneValidationError", fieldType |-> fieldType, message |-> message]

KintoneFieldType ==
    { "SINGLE_LINE_TEXT", "MULTI_LINE_TEXT", "RICH_TEXT", "NUMBER", "CALC",
      "RADIO_BUTTON", "CHECK_BOX", "MULTI_SELECT", "DROP_DOWN", "DATE", "TIME",
      "DATETIME", "LINK", "USER_SELECT", "ORGANIZATION_SELECT", "GROUP_SELECT",
      "FILE", "RECORD_NUMBER", "CREATOR", "CREATED_TIME", "MODIFIER",
      "UPDATED_TIME", "STATUS", "STATUS_ASSIGNEE", "CATEGORY", "LOOKUP",
      "RECORD_ID", "REVISION", "SUBTABLE" }

(***************************************************************************)
(* src/decoders.ts                                                         *)
(***************************************************************************)
\* mutant: null is turned into '' as well
StringCaseValue_NullToo(value) ==
    IF value = Undefined \/ value = Null THEN Str("") ELSE value

\* value === undefined ? '' : value
StringCaseValue(value) == IF value = Undefined THEN Str("") ELSE value

\* (value === undefined || value === '') ? null : value      NUMBER, DATETIME
\* a rule that needs two passes: undefined becomes '', '' becomes null
NumberCaseValue_OneStep(value) ==
    IF value = Undefined THEN Str("") ELSE IF value = Str("") THEN Null ELSE value

NumberCaseValue(value) ==
    IF value = Undefined \/ value = Str("") THEN Null ELSE value

\* mutant: '' is turned into null, as for NUMBER and DATETIME
DateCaseValue_BlankToo(value) ==
    IF value = Undefined \/ value = Str("") THEN Null ELSE value

\* value === undefined ? null : value                        DATE, TIME
DateCaseValue(value) == IF value = Undefined THEN Null ELSE value

\* mutant: only undefined is turned into null
DropDownCaseValue_UndefinedOnly(value) == IF value = Undefined THEN Null ELSE value

\* (value === undefined || value === '') ? null : value      DROP_DOWN
DropDownCaseValue(value) ==
    IF value = Undefined \/ value = Str("") THEN Null ELSE value

\* (value === undefined || value === '') ? null : value      RADIO_BUTTON
RadioButtonCaseValue(value) ==
    IF value = Undefined \/ value = Str("") THEN Null ELSE value

\* mutant: only undefined is turned into []
ArrayCaseValue_UndefinedOnly(value) == IF value = Undefined THEN Arr(<<>>) ELSE value

\* value === undefined || value === null ? [] : value
ArrayCaseValue(value) ==
    IF value = Undefined \/ value = Null THEN Arr(<<>>) ELSE value

\* the case labels of the switch, one set per rule
\* the string cases with CALC among them
StringCases_WithCalc ==
    {Str("SINGLE_LINE_TEXT"), Str("MULTI_LINE_TEXT"), Str("LINK"), Str("LOOKUP"),
     Str("CALC")}

StringCases ==
    {Str("SINGLE_LINE_TEXT"), Str("MULTI_LINE_TEXT"), Str("LINK"), Str("LOOKUP")}

\* the number cases without DATETIME, so DATETIME takes the default
NumberCases_WithoutDatetime == {Str("NUMBER")}

NumberCases == {Str("NUMBER"), Str("DATETIME")}

DateCases == {Str("DATE"), Str("TIME")}

\* the array cases with SUBTABLE among them
ArrayCases_WithSubtable ==
    {Str("CHECK_BOX"), Str("MULTI_SELECT"), Str("USER_SELECT"),
     Str("ORGANIZATION_SELECT"), Str("GROUP_SELECT"), Str("FILE"),
     Str("CATEGORY"), Str("STATUS_ASSIGNEE"), Str("SUBTABLE")}

ArrayCases ==
    {Str("CHECK_BOX"), Str("MULTI_SELECT"), Str("USER_SELECT"),
     Str("ORGANIZATION_SELECT"), Str("GROUP_SELECT"), Str("FILE"),
     Str("CATEGORY"), Str("STATUS_ASSIGNEE")}

\* fieldObj.value = v; return fieldObj
ReturnNew_InPlace(h, fieldObj, v) ==
    LET i == CHOOSE j \in 1..Len(h) : h[j] = fieldObj
    IN  [heap |-> [h EXCEPT ![i] = SpreadWith(fieldObj, "value", v)],
         outcome |-> Return(Ref(i))]

\* return { ...fieldObj, value: v }
ReturnNew(h, fieldObj, v) ==
    LET a == Alloc(h, SpreadWith(fieldObj, "value", v))
    IN  [heap |-> a.heap, outcome |-> Return(a.value)]

normalizeFieldValue(h, field) ==
    IF ~Truthy(field) \/ TypeOf(field) # "object"
    THEN [heap |-> h, outcome |-> Return(field)]
    \* fieldObj.type on null or undefined raises a TypeError
    ELSE IF field = Null \/ field = Undefined
    THEN [heap |-> h, outcome |-> Throw(TypeError)]
    ELSE
      LET type == Get(h, field, "type")
          value == Get(h, field, "value")
          fieldObj == PropsOf(h, field)
      IN  CASE type \in StringCases ->
                 ReturnNew(h, fieldObj, StringCaseValue(value))
            [] type = Str("RICH_TEXT") ->
                 [heap |-> h, outcome |-> Return(field)]
            [] type \in NumberCases ->
                 ReturnNew(h, fieldObj, NumberCaseValue(value))
            [] type \in DateCases ->
                 ReturnNew(h, fieldObj, DateCaseValue(value))
            [] type = Str("DROP_DOWN") ->
                 ReturnNew(h, fieldObj, DropDownCaseValue(value))
            [] type = Str("RADIO_BUTTON") ->
                 ReturnNew(h, fieldObj, RadioButtonCaseValue(value))
            [] type \in ArrayCases ->
                 ReturnNew(h, fieldObj, ArrayCaseValue(value))
            [] OTHER ->
                 [heap |-> h, outcome |-> Return(field)]

\* the loop of decodeKintoneRecord from the i-th entry on, filling the
\* object normalizedRecord at heap position target
RECURSIVE DecodeEntriesFrom(_, _, _, _)
DecodeEntriesFrom(h, entries, i, target) ==
    IF i > Len(entries)
    THEN [heap |-> h, outcome |-> Return(Ref(target))]
    ELSE
      LET fieldCode == entries[i].key
          r == normalizeFieldValue(h, entries[i].val)
      IN  IF r.outcome.kind = "throw"
          THEN r
          ELSE DecodeEntriesFrom(
                   [r.heap EXCEPT ![target] = AssignProp(@, fieldCode, r.outcome.value)],
                   entries, i + 1, target)

\* a decoder that normalizes in place: record[fieldCode] = ...; return record
decodeKintoneRecord_InPlace(h, record) ==
    DecodeEntriesFrom(h, ObjectEntries(PropsOf(h, record)), 1, record.ref)

decodeKintoneRecord(h, record) ==
    LET normalizedRecord == Alloc(h, <<>>)
    IN  DecodeEntriesFrom(normalizedRecord.heap, ObjectEntries(PropsOf(h, record)),
                          1, normalizedRecord.value.ref)

(***************************************************************************)
(* src/schemas/fields.ts and src/schemas/common.ts: the schemas of the     *)
(* fields, and Schema.decodeUnknownSync over them.  A Struct takes an      *)
(* object that owns each declared property with a value of the declared    *)
(* schema, and yields a new object of the declared properties only.        *)
(***************************************************************************)
\* Schema.Struct({ code: Schema.String, name: Schema.String })
KintoneUserSchema == <<"code", "name">>

KintoneOrganizationSchema == <<"code", "name">>

KintoneGroupSchema == <<"code", "name">>

\* Schema.Struct({ contentType, fileKey, name, size }), Schema.String each
KintoneFileSchema == <<"contentType", "fileKey", "name", "size">>

\* the schemas a value property is declared with
SchemaString == [schema |-> "String"]

SchemaStringOrNull == [schema |-> "Union(String, Null)"]

SchemaArrayOfString == [schema |-> "Array(String)"]

SchemaStruct(names) == [schema |-> "Struct", names |-> names]

SchemaArrayOfStruct(names) == [schema |-> "Array(Struct)", names |-> names]

\* Schema.Struct({ type: Schema.Literal(t), value: valueSchema })
FieldSchema(t, valueSchema) == [type |-> Str(t), value |-> valueSchema]

\* a union that lacks the member for REVISION
KintoneFieldSchema_WithoutRevision ==
    {FieldSchema(t, SchemaString) :
        t \in {"SINGLE_LINE_TEXT", "MULTI_LINE_TEXT", "RICH_TEXT", "CALC", "LINK",
               "RECORD_NUMBER", "CREATED_TIME", "UPDATED_TIME", "STATUS",
               "LOOKUP", "RECORD_ID"}}
    \cup {FieldSchema(t, SchemaStringOrNull) :
        t \in {"NUMBER", "RADIO_BUTTON", "DROP_DOWN", "DATE", "TIME", "DATETIME"}}
    \cup {FieldSchema(t, SchemaArrayOfString) :
        t \in {"CHECK_BOX", "MULTI_SELECT", "CATEGORY"}}
    \cup {FieldSchema(t, SchemaArrayOfStruct(KintoneUserSchema)) :
        t \in {"USER_SELECT", "STATUS_ASSIGNEE"}}
    \cup {FieldSchema("ORGANIZATION_SELECT", SchemaArrayOfStruct(KintoneOrganizationSchema)),
          FieldSchema("GROUP_SELECT", SchemaArrayOfStruct(KintoneGroupSchema)),
          FieldSchema("FILE", SchemaArrayOfStruct(KintoneFileSchema))}
    \cup {FieldSchema(t, SchemaStruct(KintoneUserSchema)) : t \in {"CREATOR", "MODIFIER"}}

\* the union of the 28 field schemas
KintoneFieldSchema ==
    {FieldSchema(t, SchemaString) :
        t \in {"SINGLE_LINE_TEXT", "MULTI_LINE_TEXT", "RICH_TEXT", "CALC", "LINK",
               "RECORD_NUMBER", "CREATED_TIME", "UPDATED_TIME", "STATUS",
               "LOOKUP", "RECORD_ID", "REVISION"}}
    \cup {FieldSchema(t, SchemaStringOrNull) :
        t \in {"NUMBER", "RADIO_BUTTON", "DROP_DOWN", "DATE", "TIME", "DATETIME"}}
    \cup {FieldSchema(t, SchemaArrayOfString) :
        t \in {"CHECK_BOX", "MULTI_SELECT", "CATEGORY"}}
    \cup {FieldSchema(t, SchemaArrayOfStruct(KintoneUserSchema)) :
        t \in {"USER_SELECT", "STATUS_ASSIGNEE"}}
    \cup {FieldSchema("ORGANIZATION_SELECT", SchemaArrayOfStruct(KintoneOrganizationSchema)),
          FieldSchema("GROUP_SELECT", SchemaArrayOfStruct(KintoneGroupSchema)),
          FieldSchema("FILE", SchemaArrayOfStruct(KintoneFileSchema))}
    \cup {FieldSchema(t, SchemaStruct(KintoneUserSchema)) : t \in {"CREATOR", "MODIFIER"}}

IsString(v) == v.kind = "string"

\* v is an object that owns every property of names with a string for value
IsStructOf(h, v, names) ==
    /\ v.kind \in {"object", "inline"}
    /\ \A i \in 1..Len(names) :
          /\ HasOwn(PropsOf(h, v), names[i])
          /\ IsString(GetOwn(PropsOf(h, v), names[i]))

\* the decoded struct: the declared properties, in the order declared
DecodedStruct(h, v, names) ==
    Inline([i \in 1..Len(names) |-> Prop(names[i], GetOwn(PropsOf(h, v), names[i]))])

\* v is a value of the schema
Is(h, valueSchema, v) ==
    CASE valueSchema.schema = "String" -> IsString(v)
      [] valueSchema.schema = "Union(String, Null)" -> IsString(v) \/ v = Null
      [] valueSchema.schema = "Array(String)" ->
           IsArray(v) /\ \A i \in 1..Len(v.items) : IsString(v.items[i])
      [] valueSchema.schema = "Struct" -> IsStructOf(h, v, valueSchema.names)
      [] valueSchema.schema = "Array(Struct)" ->
           IsArray(v) /\ \A i \in 1..Len(v.items) :
                            IsStructOf(h, v.items[i], valueSchema.names)

\* the value decoding yields for a value of the schema
Decoded(h, valueSchema, v) ==
    CASE valueSchema.schema = "Struct" -> DecodedStruct(h, v, valueSchema.names)
      [] valueSchema.schema = "Array(Struct)" ->
           Arr([i \in 1..Len(v.items) |->
                   DecodedStruct(h, v.items[i], valueSchema.names)])
      [] OTHER -> v

\* Schema.decodeUnknownSync(KintoneFieldSchema)(u)
decodeUnknownSync(h, u) ==
    IF u.kind \notin {"object", "inline"}
    THEN [heap |-> h, outcome |-> Throw(ParseError)]
    ELSE
      LET props == PropsOf(h, u)
          members == {m \in KintoneFieldSchema :
                         HasOwn(props, "type") /\ GetOwn(props, "type") = m.type}
      IN  IF \E m \in members :
                 HasOwn(props, "value") /\ Is(h, m.value, GetOwn(props, "value"))
          THEN LET m == CHOOSE m \in members : TRUE
                   a == Alloc(h, <<Prop("type", m.type),
                                   Prop("value", Decoded(h, m.value, GetOwn(props, "value")))>>)
               IN  [heap |-> a.heap, outcome |-> Return(a.value)]
          ELSE [heap |-> h, outcome |-> Throw(ParseError)]

\* a decoder that leaves out the normalization
decodeKintoneField_SchemaOnly(h, data) == decodeUnknownSync(h, data)

decodeKintoneField(h, data) ==
    LET normalized == normalizeFieldValue(h, data)
    IN  IF normalized.outcome.kind = "throw"
        THEN normalized
        ELSE decodeUnknownSync(normalized.heap, normalized.outcome.value)

(***************************************************************************)
(* src/schemas/common.ts                                                   *)
(***************************************************************************)
\* the members of a union of field schemas that have the type of props
MembersFor(union, props) ==
    {m \in union : HasOwn(props, "type") /\ GetOwn(props, "type") = m.type}

\* u is a value of the union of field schemas
IsFieldOf(h, union, u) ==
    /\ u.kind \in {"object", "inline"}
    /\ \E m \in MembersFor(union, PropsOf(h, u)) :
          /\ HasOwn(PropsOf(h, u), "value")
          /\ Is(h, m.value, GetOwn(PropsOf(h, u), "value"))

\* the field decoding yields for a value of the union: type and value only
DecodedField(h, union, u) ==
    LET props == PropsOf(h, u)
        m == CHOOSE m \in MembersFor(union, props) : TRUE
    IN  Inline(<<Prop("type", m.type),
                 Prop("value", Decoded(h, m.value, GetOwn(props, "value")))>>)

\* a schema for the fields of a row that leaves out FILE, the system types
\* and the fields that select entities
RowFieldSchema_SubtableLegal ==
    {m \in KintoneFieldSchema :
        m.type \in {Str(t) : t \in {"SINGLE_LINE_TEXT", "MULTI_LINE_TEXT", "RICH_TEXT",
                                    "NUMBER", "CALC", "CHECK_BOX", "RADIO_BUTTON",
                                    "DROP_DOWN", "MULTI_SELECT", "DATE", "TIME",
                                    "DATETIME", "LINK"}}}

\* the schema of the fields of a row: value: KintoneFieldSchema
RowFieldSchema == KintoneFieldSchema

\* Schema.Record({ key: Schema.String, value: KintoneFieldSchema })
IsRowRecord(h, v) ==
    /\ v.kind \in {"object", "inline"}
    /\ \A i \in 1..Len(PropsOf(h, v)) :
          IsFieldOf(h, RowFieldSchema, PropsOf(h, v)[i].val)

DecodedRowRecord(h, v) ==
    LET entries == ObjectEntries(PropsOf(h, v))
    IN  Inline([i \in 1..Len(entries) |->
                   Prop(entries[i].key, DecodedField(h, RowFieldSchema, entries[i].val))])

\* Schema.Struct({ id: Schema.String, value: Schema.Record(...) })
IsSubtableRow(h, v) ==
    /\ v.kind \in {"object", "inline"}
    /\ HasOwn(PropsOf(h, v), "id")
    /\ IsString(GetOwn(PropsOf(h, v), "id"))
    /\ HasOwn(PropsOf(h, v), "value")
    /\ IsRowRecord(h, GetOwn(PropsOf(h, v), "value"))

DecodedSubtableRow(h, v) ==
    Inline(<<Prop("id", GetOwn(PropsOf(h, v), "id")),
             Prop("value", DecodedRowRecord(h, GetOwn(PropsOf(h, v), "value")))>>)

\* u is a value of SubtableFieldSchema
IsSubtableField(h, u) ==
    /\ u.kind \in {"object", "inline"}
    /\ HasOwn(PropsOf(h, u), "type")
    /\ GetOwn(PropsOf(h, u), "type") = Str("SUBTABLE")
    /\ HasOwn(PropsOf(h, u), "value")
    /\ IsArray(GetOwn(PropsOf(h, u), "value"))
    /\ \A i \in 1..Len(GetOwn(PropsOf(h, u), "value").items) :
          IsSubtableRow(h, GetOwn(PropsOf(h, u), "value").items[i])

\* Schema.decodeUnknownSync(SubtableFieldSchema)(u)
decodeSubtableField(h, u) ==
    IF IsSubtableField(h, u)
    THEN LET rows == GetOwn(PropsOf(h, u), "value").items
             a == Alloc(h, <<Prop("type", Str("SUBTABLE")),
                             Prop("value",
                                  Arr([i \in 1..Len(rows) |->
                                          DecodedSubtableRow(h, rows[i])]))>>)
         IN  [heap |-> a.heap, outcome |-> Return(a.value)]
    ELSE [heap |-> h, outcome |-> Throw(ParseError)]

(***************************************************************************)
(* src/schemas/form/fields.ts                                              *)
(***************************************************************************)
\* a string given by its UTF-16 code units
Text(units) == [kind |-> "string", units |-> units]

IsText(v) == v.kind = "string" /\ "units" \in DOMAIN v

\* the character class of the pattern of a field code, as ranges of code
\* units: $, U+3041-3093, U+30A0-30FF, U+3040-309F, U+4E00-9FAF, U+FF66-FF9F,
\* full-width A-Z, a-z and 0-9, A-Z, a-z, 0-9, _, U+FF3F, U+FF65, U+30FB and
\* the currency signs U+FF04, U+FFE5, U+20AC, U+FFE1, U+FFE6, U+00A5
FieldCodeCharacters ==
    {<<36, 36>>, <<12353, 12435>>, <<12448, 12543>>, <<12352, 12447>>,
     <<19968, 40879>>, <<65382, 65439>>, <<65313, 65338>>, <<65345, 65370>>,
     <<65296, 65305>>, <<65, 90>>, <<97, 122>>, <<48, 57>>, <<95, 95>>,
     <<65343, 65343>>, <<65381, 65381>>, <<12539, 12539>>, <<65284, 65284>>,
     <<65509, 65509>>, <<8364, 8364>>, <<65505, 65505>>, <<65510, 65510>>,
     <<165, 165>>}

\* /^[...]+$/.test(value)
MatchesFieldCodePattern(units) ==
    /\ Len(units) > 0
    /\ \A i \in 1..Len(units) :
          \E r \in FieldCodeCharacters : r[1] <= units[i] /\ units[i] <= r[2]

\* /^[0-9]/.test(value)
StartsWithDigit(units) == Len(units) > 0 /\ units[1] \in 48..57

\* the reserved words: status, assignee, category (in Japanese), __ROOT__,
\* not, and record number, creator, created time, modifier, updated time (in
\* Japanese)
RESERVED_FIELD_CODES ==
    {<<12473, 12486, 12540, 12479, 12473>>,
     <<20316, 26989, 32773>>,
     <<12459, 12486, 12468, 12522, 12540>>,
     <<95, 95, 82, 79, 79, 84, 95, 95>>,
     <<110, 111, 116>>,
     <<12524, 12467, 12540, 12489, 30058, 21495>>,
     <<20316, 25104, 32773>>,
     <<20316, 25104, 26085, 26178>>,
     <<26356, 26032, 32773>>,
     <<26356, 26032, 26085, 26178>>}

SystemFieldCodeSchema(v) ==
    /\ IsText(v)
    /\ MatchesFieldCodePattern(v.units)
    /\ Len(v.units) >= 1
    /\ ~StartsWithDigit(v.units)

\* a schema of user-defined field codes that leaves out the last filter
UserFieldCodeSchema_WithoutFilter(v) == SystemFieldCodeSchema(v)

UserFieldCodeSchema(v) ==
    /\ SystemFieldCodeSchema(v)
    /\ v.units \notin RESERVED_FIELD_CODES

\* the schemas the properties of a field are built from
SchemaBoolean == [schema |-> "Boolean"]

SchemaSystemFieldCode == [schema |-> "SystemFieldCode"]

SchemaUserFieldCode == [schema |-> "UserFieldCode"]

\* Schema.Literal(...), Schema.Union(Schema.Literal(...), ...)
Literal(strs) == [schema |-> "Literal", literals |-> {Str(s) : s \in strs}]

\* Schema.Array(item)
Array(item) == [schema |-> "Array", item |-> item]

\* Schema.Record({ key: Schema.String, value })
Record(value) == [schema |-> "Record", value |-> value]

\* Schema.Union(...members)
Union(members) == [schema |-> "Union", members |-> members]

\* Schema.Struct({ ... }): its property signatures in the order declared
Struct(props) == [schema |-> "Struct", props |-> props]

\* name: schema and name: Schema.optional(schema)
Required(name, schema) == [name |-> name, schema |-> schema, optional |-> FALSE]

Optional(name, schema) == [name |-> name, schema |-> schema, optional |-> TRUE]

\* Schema.extend(base, extension): the property signatures of both; a
\* property both declare (type) has to be a value of both schemas, and the
\* extension's literal is the narrower one
extend(base, extension) ==
    LET redeclared(p) == \E i \in 1..Len(extension.props) : extension.props[i].name = p.name
    IN  Struct(SelectSeq(base.props, LAMBDA p : ~redeclared(p)) \o extension.props)

\* v is a value of the schema s
RECURSIVE Conforms(_, _, _)
Conforms(h, s, v) ==
    CASE s.schema = "String" -> v.kind = "string"
      [] s.schema = "Boolean" -> v.kind = "boolean"
      [] s.schema = "Literal" -> v \in s.literals
      [] s.schema = "SystemFieldCode" -> SystemFieldCodeSchema(v)
      [] s.schema = "UserFieldCode" -> UserFieldCodeSchema(v)
      [] s.schema = "Array" ->
           IsArray(v) /\ \A i \in 1..Len(v.items) : Conforms(h, s.item, v.items[i])
      [] s.schema = "Record" ->
           /\ v.kind \in {"object", "inline"}
           /\ \A i \in 1..Len(PropsOf(h, v)) : Conforms(h, s.value, PropsOf(h, v)[i].val)
      [] s.schema = "Struct" ->
           /\ v.kind \in {"object", "inline"}
           /\ \A i \in 1..Len(s.props) :
                 LET p == s.props[i]
                     present == HasOwn(PropsOf(h, v), p.name)
                 IN  IF present
                     THEN \/ Conforms(h, p.schema, GetOwn(PropsOf(h, v), p.name))
                          \/ p.optional /\ GetOwn(PropsOf(h, v), p.name) = Undefined
                     ELSE p.optional
      [] s.schema = "Union" ->
           \E i \in 1..Len(s.members) : Conforms(h, s.members[i], v)

NumericStringSchema == SchemaString

BaseFieldPropertiesSchema ==
    Struct(<<Required("type", SchemaString),
             Required("code", SchemaUserFieldCode),
             Required("label", SchemaString),
             Optional("noLabel", SchemaBoolean),
             Optional("required", SchemaBoolean)>>)

OptionSchema ==
    Struct(<<Required("label", SchemaString), Required("index", NumericStringSchema)>>)

\* Schema.Struct({ type: <literals>, code: UserFieldCodeSchema })
EntityOf(types) ==
    Struct(<<Required("type", Literal(types)), Required("code", SchemaUserFieldCode)>>)

EntitySchema == EntityOf({"USER", "ORGANIZATION", "GROUP"})

MultiLineTextFieldPropertiesSchema ==
    extend(BaseFieldPropertiesSchema,
           Struct(<<Required("type", Literal({"MULTI_LINE_TEXT"})),
                    Required("defaultValue", SchemaString)>>))

FileFieldPropertiesSchema ==
    extend(BaseFieldPropertiesSchema,
           Struct(<<Required("type", Literal({"FILE"})),
                    Required("thumbnailSize", NumericStringSchema)>>))

RecordNumberFieldPropertiesSchema ==
    Struct(<<Required("type", Literal({"RECORD_NUMBER"})),
             Required("code", SchemaSystemFieldCode),
             Required("label", SchemaString),
             Optional("noLabel", SchemaBoolean)>>)

CreatorFieldPropertiesSchema ==
    Struct(<<Required("type", Literal({"CREATOR"})),
             Required("code", SchemaSystemFieldCode),
             Required("label", SchemaString),
             Optional("noLabel", SchemaBoolean)>>)

CreatedTimeFieldPropertiesSchema ==
    Struct(<<Required("type", Literal({"CREATED_TIME"})),
             Required("code", SchemaSystemFieldCode),
             Required("label", SchemaString),
             Optional("noLabel", SchemaBoolean)>>)

ModifierFieldPropertiesSchema ==
    Struct(<<Required("type", Literal({"MODIFIER"})),
             Required("code", SchemaSystemFieldCode),
             Required("label", SchemaString),
             Optional("noLabel", SchemaBoolean)>>)

UpdatedTimeFieldPropertiesSchema ==
    Struct(<<Required("type", Literal({"UPDATED_TIME"})),
             Required("code", SchemaSystemFieldCode),
             Required("label", SchemaString),
             Optional("noLabel", SchemaBoolean)>>)

StatusFieldPropertiesSchema ==
    Struct(<<Required("type", Literal({"STATUS"})),
             Required("code", SchemaSystemFieldCode),
             Required("label", SchemaString),
             Optional("noLabel", SchemaBoolean),
             Optional("enabled", SchemaBoolean)>>)

StatusAssigneeFieldPropertiesSchema ==
    Struct(<<Required("type", Literal({"STATUS_ASSIGNEE"})),
             Required("code", SchemaSystemFieldCode),
             Required("label", SchemaString),
             Optional("noLabel", SchemaBoolean),
             Optional("enabled", SchemaBoolean)>>)

CategoryFieldPropertiesSchema ==
    Struct(<<Required("type", Literal({"CATEGORY"})),
             Required("code", SchemaSystemFieldCode),
             Required("label", SchemaString),
             Optional("noLabel", SchemaBoolean),
             Optional("enabled", SchemaBoolean)>>)

\* in a subtable noLabel and required are always there
BaseSubtableFieldPropertiesSchema ==
    Struct(<<Required("type", SchemaString),
             Required("code", SchemaUserFieldCode),
             Required("label", SchemaString),
             Required("noLabel", SchemaBoolean),
             Required("required", SchemaBoolean)>>)

SubtableSingleLineTextFieldPropertiesSchema ==
    extend(BaseSubtableFieldPropertiesSchema,
           Struct(<<Required("type", Literal({"SINGLE_LINE_TEXT"})),
                    Required("defaultValue", SchemaString),
                    Required("unique", SchemaBoolean),
                    Required("minLength", NumericStringSchema),
                    Required("maxLength", NumericStringSchema),
                    Required("expression", SchemaString),
                    Required("hideExpression", SchemaBoolean)>>))

SubtableMultiLineTextFieldPropertiesSchema ==
    extend(BaseSubtableFieldPropertiesSchema,
           Struct(<<Required("type", Literal({"MULTI_LINE_TEXT"})),
                    Required("defaultValue", SchemaString)>>))

SubtableRichTextFieldPropertiesSchema ==
    extend(BaseSubtableFieldPropertiesSchema,
           Struct(<<Required("type", Literal({"RICH_TEXT"})),
                    Required("defaultValue", SchemaString)>>))

SubtableNumberFieldPropertiesSchema ==
    extend(BaseSubtableFieldPropertiesSchema,
           Struct(<<Required("type", Literal({"NUMBER"})),
                    Required("defaultValue", SchemaString),
                    Required("unique", SchemaBoolean),
                    Required("minValue", NumericStringSchema),
                    Required("maxValue", NumericStringSchema),
                    Required("digit", SchemaBoolean),
                    Required("displayScale", NumericStringSchema),
                    Required("unit", SchemaString),
                    Required("unitPosition", Literal({"BEFORE", "AFTER", ""}))>>))

SubtableCalcFieldPropertiesSchema ==
    extend(BaseSubtableFieldPropertiesSchema,
           Struct(<<Required("type", Literal({"CALC"})),
                    Required("expression", SchemaString),
                    Required("format", Literal({"NUMBER", "NUMBER_DIGIT", "DATETIME", "DATE", "TIME",
                                               "HOUR_MINUTE", "DAY_HOUR_MINUTE", ""})),
                    Required("displayScale", NumericStringSchema),
                    Required("hideExpression", SchemaBoolean),
                    Required("unit", SchemaString),
                    Required("unitPosition", Literal({"BEFORE", "AFTER", ""}))>>))

SubtableRadioButtonFieldPropertiesSchema ==
    extend(BaseSubtableFieldPropertiesSchema,
           Struct(<<Required("type", Literal({"RADIO_BUTTON"})),
                    Required("options", Record(OptionSchema)),
                    Required("defaultValue", SchemaString),
                    Required("align", Literal({"HORIZONTAL", "VERTICAL", ""}))>>))

SubtableCheckBoxFieldPropertiesSchema ==
    extend(BaseSubtableFieldPropertiesSchema,
           Struct(<<Required("type", Literal({"CHECK_BOX"})),
                    Required("options", Record(OptionSchema)),
                    Required("defaultValue", Array(SchemaString)),
                    Required("align", Literal({"HORIZONTAL", "VERTICAL", ""}))>>))

SubtableMultiSelectFieldPropertiesSchema ==
    extend(BaseSubtableFieldPropertiesSchema,
           Struct(<<Required("type", Literal({"MULTI_SELECT"})),
                    Required("options", Record(OptionSchema)),
                    Required("defaultValue", Array(SchemaString))>>))

SubtableDropDownFieldPropertiesSchema ==
    extend(BaseSubtableFieldPropertiesSchema,
           Struct(<<Required("type", Literal({"DROP_DOWN"})),
                    Required("options", Record(OptionSchema)),
                    Required("defaultValue", SchemaString)>>))

SubtableDateFieldPropertiesSchema ==
    extend(BaseSubtableFieldPropertiesSchema,
           Struct(<<Required("type", Literal({"DATE"})),
                    Required("defaultValue", SchemaString),
                    Required("unique", SchemaBoolean),
                    Required("defaultNowValue", SchemaBoolean)>>))

SubtableTimeFieldPropertiesSchema ==
    extend(BaseSubtableFieldPropertiesSchema,
           Struct(<<Required("type", Literal({"TIME"})),
                    Required("defaultValue", SchemaString),
                    Required("defaultNowValue", SchemaBoolean)>>))

SubtableDateTimeFieldPropertiesSchema ==
    extend(BaseSubtableFieldPropertiesSchema,
           Struct(<<Required("type", Literal({"DATETIME"})),
                    Required("defaultValue", SchemaString),
                    Required("unique", SchemaBoolean),
                    Required("defaultNowValue", SchemaBoolean)>>))

SubtableLinkFieldPropertiesSchema ==
    extend(BaseSubtableFieldPropertiesSchema,
           Struct(<<Required("type", Literal({"LINK"})),
                    Required("protocol", Literal({"WEB", "CALL", "MAIL"})),
                    Required("defaultValue", SchemaString),
                    Required("unique", SchemaBoolean),
                    Required("minLength", NumericStringSchema),
                    Required("maxLength", NumericStringSchema)>>))

SubtableUserSelectFieldPropertiesSchema ==
    extend(BaseSubtableFieldPropertiesSchema,
           Struct(<<Required("type", Literal({"USER_SELECT"})),
                    Required("entities", Array(EntitySchema)),
                    Required("defaultValue", Array(EntitySchema))>>))

SubtableOrganizationSelectFieldPropertiesSchema ==
    extend(BaseSubtableFieldPropertiesSchema,
           Struct(<<Required("type", Literal({"ORGANIZATION_SELECT"})),
                    Required("entities", Array(EntitySchema)),
                    Required("defaultValue", Array(EntityOf({"ORGANIZATION"})))>>))

SubtableGroupSelectFieldPropertiesSchema ==
    extend(BaseSubtableFieldPropertiesSchema,
           Struct(<<Required("type", Literal({"GROUP_SELECT"})),
                    Required("entities", Array(EntitySchema)),
                    Required("defaultValue", Array(EntityOf({"GROUP"})))>>))

SubtableFileFieldPropertiesSchema ==
    extend(BaseSubtableFieldPropertiesSchema,
           Struct(<<Required("type", Literal({"FILE"})),
                    Required("thumbnailSize", NumericStringSchema)>>))

\* the union the documentation describes: without the fields that select
\* entities and without FILE
SubtableFieldSchema_Documented ==
    Union(<<SubtableSingleLineTextFieldPropertiesSchema,
            SubtableMultiLineTextFieldPropertiesSchema,
            SubtableRichTextFieldPropertiesSchema,
            SubtableNumberFieldPropertiesSchema,
            SubtableCalcFieldPropertiesSchema,
            SubtableRadioButtonFieldPropertiesSchema,
            SubtableCheckBoxFieldPropertiesSchema,
            SubtableMultiSelectFieldPropertiesSchema,
            SubtableDropDownFieldPropertiesSchema,
            SubtableDateFieldPropertiesSchema,
            SubtableTimeFieldPropertiesSchema,
            SubtableDateTimeFieldPropertiesSchema,
            SubtableLinkFieldPropertiesSchema>>)

\* the fields that can be used inside a subtable
SubtableFieldSchema ==
    Union(<<SubtableSingleLineTextFieldPropertiesSchema,
            SubtableMultiLineTextFieldPropertiesSchema,
            SubtableRichTextFieldPropertiesSchema,
            SubtableNumberFieldPropertiesSchema,
            SubtableCalcFieldPropertiesSchema,
            SubtableRadioButtonFieldPropertiesSchema,
            SubtableCheckBoxFieldPropertiesSchema,
            SubtableMultiSelectFieldPropertiesSchema,
            SubtableDropDownFieldPropertiesSchema,
            SubtableDateFieldPropertiesSchema,
            SubtableTimeFieldPropertiesSchema,
            SubtableDateTimeFieldPropertiesSchema,
            SubtableLinkFieldPropertiesSchema,
            SubtableUserSelectFieldPropertiesSchema,
            SubtableOrganizationSelectFieldPropertiesSchema,
            SubtableGroupSelectFieldPropertiesSchema,
            SubtableFileFieldPropertiesSchema>>)

SubtableFieldPropertiesSchema ==
    Struct(<<Required("type", Literal({"SUBTABLE"})),
             Required("code", SchemaUserFieldCode),
             Required("fields", Record(SubtableFieldSchema))>>)

GroupFieldPropertiesSchema ==
    Struct(<<Required("type", Literal({"GROUP"})),
             Required("code", SchemaUserFieldCode),
             Required("label", SchemaString),
             Optional("noLabel", SchemaBoolean),
             Optional("openGroup", SchemaBoolean)>>)

\* Schema.decodeUnknownSync(schema)(u) for a Struct schema of properties:
\* the result holds the properties the schema declares, in the order
\* declared; excess properties are dropped
decodeProperties(h, schema, u) ==
    IF Conforms(h, schema, u)
    THEN LET props == PropsOf(h, u)
             present == SelectSeq(schema.props, LAMBDA p : HasOwn(props, p.name))
             a == Alloc(h, [i \in 1..Len(present) |->
                               Prop(present[i].name, GetOwn(props, present[i].name))])
         IN  [heap |-> a.heap, outcome |-> Return(a.value)]
    ELSE [heap |-> h, outcome |-> Throw(ParseError)]

(***************************************************************************)
(* src/utils/field-config-to-typescript-code.ts                            *)
(***************************************************************************)
\* the general category of a character: letters (Latin, hiragana, katakana,
\* kanji), decimal digits (half and full width), connector punctuation (_),
\* the dollar sign, and Other for the rest (hyphen, space, ...)
Category(c) ==
    CASE c \in 65..90 \cup 97..122 -> "L"
      [] c \in 12353..12438 \cup 12449..12538 \cup 19968..40879 -> "L"
      [] c \in 48..57 \cup 65296..65305 -> "Nd"
      [] c \in {95, 65343} -> "Pc"
      [] c = 36 -> "Sc"
      [] OTHER -> "Other"

\* [\p{L}\p{Nl}$_]
StartsIdentifier(c) == Category(c) \in {"L", "Nl"} \/ c = 36 \/ c = 95

\* [\p{L}\p{Nl}\p{Mn}\p{Mc}\p{Nd}\p{Pc}$]
ContinuesIdentifier(c) ==
    Category(c) \in {"L", "Nl", "Mn", "Mc", "Nd", "Pc"} \/ c = 36

\* /^[\p{L}\p{Nl}$_][\p{L}\p{Nl}\p{Mn}\p{Mc}\p{Nd}\p{Pc}$]*$/u.test(code)
IsValidIdentifier(code) ==
    /\ Len(code) > 0
    /\ StartsIdentifier(code[1])
    /\ \A i \in 2..Len(code) : ContinuesIdentifier(code[i])

\* code.replace(/[^\p{L}\p{Nl}\p{Mn}\p{Mc}\p{Nd}\p{Pc}$_]/gu, '_')
ReplaceInvalid(code) ==
    [i \in 1..Len(code) |->
        IF ContinuesIdentifier(code[i]) \/ code[i] = 95 THEN code[i] ELSE 95]

\* varName.replace(/_+/g, '_')
CollapseUnderscores(s) ==
    LET kept(i) == s[i] # 95 \/ i = 1 \/ s[i - 1] # 95
        at == SelectSeq([i \in 1..Len(s) |-> i], kept)
    IN  [j \in 1..Len(at) |-> s[at[j]]]

\* varName.replace(/^_+|_+$/g, '')
TrimUnderscores(s) ==
    LET inside == {i \in 1..Len(s) : s[i] # 95}
    IN  IF inside = {} THEN <<>>
        ELSE SubSeq(s, CHOOSE i \in inside : \A j \in inside : i <= j,
                       CHOOSE i \in inside : \A j \in inside : j <= i)

\* 'Field'
FieldSuffix == <<70, 105, 101, 108, 100>>

\* the last step: sanitize the code
Sanitized(code) ==
    LET varName == TrimUnderscores(CollapseUnderscores(ReplaceInvalid(code)))
        field_ == <<102, 105, 101, 108, 100, 95>>
        generated == <<103, 101, 110, 101, 114, 97, 116, 101, 100>>
    IN  IF varName = <<>> \/ varName[1] \in 48..57
        THEN field_ \o (IF varName = <<>> THEN generated ELSE varName) \o FieldSuffix
        ELSE varName \o FieldSuffix

toVariableName(code) ==
    IF Len(code) > 0 /\ code[1] = 36
    THEN code \o FieldSuffix
    ELSE IF Len(code) > 0 /\ code[1] \in 48..57
    THEN <<95>> \o code \o FieldSuffix
    ELSE IF IsValidIdentifier(code)
    THEN code \o FieldSuffix
    ELSE Sanitized(code)

\* the variable name of fieldConfigToTypeScriptCode: of the field code, or of
\* 'field' where there is none
VariableNameOf(fieldCode) ==
    toVariableName(IF fieldCode = <<>> THEN <<102, 105, 101, 108, 100>> ELSE fieldCode)

(***************************************************************************)
(* src/validators.ts                                                       *)
(***************************************************************************)
\* the message of both throw sites, `${type}<suffix>`; the suffix is a fixed
\* Japanese sentence ("... field cannot be set to an empty value"), written
\* here in ASCII
EmptyValueMessage(type) == type.str \o " field cannot have an empty value"

nonEmptyFields == <<"RADIO_BUTTON", "CATEGORY", "STATUS_ASSIGNEE">>

\* nonEmptyFields.includes(type)
Includes(list, type) == \E i \in 1..Len(list) : Str(list[i]) = type

\* mutant: the empty string is not taken for empty
RadioButtonIsEmpty_NullOnly(value) == value = Null

\* isEmpty = value === null || value === ''
RadioButtonIsEmpty(value) == value = Null \/ value = Str("")

\* isEmpty = Array.isArray(value) && value.length === 0
CategoryIsEmpty(value) == IsArray(value) /\ Len(value.items) = 0

validateFieldForWrite(h, field) ==
    IF field = Null \/ field = Undefined
    THEN Throw(TypeError)
    ELSE
      LET type == Get(h, field, "type")
          value == Get(h, field, "value")
          isEmpty ==
              CASE type = Str("RADIO_BUTTON") -> RadioButtonIsEmpty(value)
                [] type \in {Str("CATEGORY"), Str("STATUS_ASSIGNEE")} ->
                     CategoryIsEmpty(value)
                [] OTHER -> FALSE
      IN  IF Includes(nonEmptyFields, type) /\ isEmpty
          THEN Throw(KintoneValidationError(type, EmptyValueMessage(type)))
          ELSE Return(Undefined)

\* a catch block that lets a TypeError stand for every error
RethrowWithFieldCode_AsTypeError(fieldCode, error) == TypeError

\* mutant: the error is thrown anew without the field code
RethrowWithFieldCode_PlainMessage(fieldCode, error) ==
    IF error.name = "KintoneValidationError"
    THEN KintoneValidationError(error.fieldType, error.message)
    ELSE error

\* the catch block of validateRecordForWrite: a KintoneValidationError is
\* thrown anew with the field code put before its message,
\* `<Field> "${fieldCode}": ${error.message}` (<Field> is a Japanese word in
\* the source); any other error is thrown as it is
RethrowWithFieldCode(fieldCode, error) ==
    IF error.name = "KintoneValidationError"
    THEN KintoneValidationError(error.fieldType,
             "Field \"" \o fieldCode \o "\": " \o error.message)
    ELSE error

\* mutant: the loop goes on after a field was rejected and raises the first
\* error once every field was examined
RECURSIVE ValidateEntriesFrom_KeepGoing(_, _, _)
ValidateEntriesFrom_KeepGoing(h, entries, i) ==
    IF i > Len(entries)
    THEN [outcome |-> Return(Undefined), examined |-> <<>>]
    ELSE
      LET fieldCode == entries[i].key
          r == validateFieldForWrite(h, entries[i].val)
          rest == ValidateEntriesFrom_KeepGoing(h, entries, i + 1)
      IN  [outcome |-> IF r.kind = "throw"
                       THEN Throw(RethrowWithFieldCode(fieldCode, r.error))
                       ELSE rest.outcome,
           examined |-> <<fieldCode>> \o rest.examined]

\* the loop of validateRecordForWrite from the i-th entry on: its outcome and,
\* in order, the field codes whose fields validateFieldForWrite was called on
RECURSIVE ValidateEntriesFrom(_, _, _)
ValidateEntriesFrom(h, entries, i) ==
    IF i > Len(entries)
    THEN [outcome |-> Return(Undefined), examined |-> <<>>]
    ELSE
      LET fieldCode == entries[i].key
          r == validateFieldForWrite(h, entries[i].val)
      IN  IF r.kind = "throw"
          THEN [outcome |-> Throw(RethrowWithFieldCode(fieldCode, r.error)),
                examined |-> <<fieldCode>>]
          ELSE
            LET rest == ValidateEntriesFrom(h, entries, i + 1)
            IN  [outcome |-> rest.outcome,
                 examined |-> <<fieldCode>> \o rest.examined]

validateRecordForWrite(h, record) ==
    ValidateEntriesFrom(h, ObjectEntries(PropsOf(h, record)), 1)

\* mutant: STATUS_ASSIGNEE is missing from the list
isNonEmptyField_WithoutStatusAssignee(type) ==
    Includes(<<"RADIO_BUTTON", "CATEGORY">>, type)

isNonEmptyField(type) ==
    Includes(<<"RADIO_BUTTON", "CATEGORY", "STATUS_ASSIGNEE">>, type)

\* the case labels of the switch of getEmptyValueForWrite
EmptyStringCases ==
    {Str("SINGLE_LINE_TEXT"), Str("MULTI_LINE_TEXT"), Str("RICH_TEXT"),
     Str("LINK"), Str("LOOKUP")}

\* mutant: the DROP_DOWN label is missing, so DROP_DOWN takes the default
EmptyNullCases_WithoutDropDown ==
    {Str("NUMBER"), Str("DATE"), Str("TIME"), Str("DATETIME")}

EmptyNullCases ==
    {Str("NUMBER"), Str("DATE"), Str("TIME"), Str("DATETIME"), Str("DROP_DOWN")}

\* the array labels without FILE, so FILE takes the default
EmptyArrayCases_WithoutFile ==
    {Str("CHECK_BOX"), Str("MULTI_SELECT"), Str("USER_SELECT"),
     Str("ORGANIZATION_SELECT"), Str("GROUP_SELECT")}

EmptyArrayCases ==
    {Str("CHECK_BOX"), Str("MULTI_SELECT"), Str("USER_SELECT"),
     Str("ORGANIZATION_SELECT"), Str("GROUP_SELECT"), Str("FILE")}

\* mutant: the CATEGORY label is missing, so CATEGORY takes the default
NoEmptyValueCases_WithoutCategory == {Str("RADIO_BUTTON"), Str("STATUS_ASSIGNEE")}

NoEmptyValueCases ==
    {Str("RADIO_BUTTON"), Str("CATEGORY"), Str("STATUS_ASSIGNEE")}

getEmptyValueForWrite(type) ==
    CASE type \in EmptyStringCases -> Return(Str(""))
      [] type \in EmptyNullCases -> Return(Null)
      [] type \in EmptyArrayCases -> Return(Arr(<<>>))
      [] type \in NoEmptyValueCases ->
           Throw(KintoneValidationError(type, EmptyValueMessage(type)))
      [] OTHER -> Return(Str(""))

(***************************************************************************)
(* The caller's arguments.                                                 *)
(***************************************************************************)
\* the type property of a field the caller builds: a tag of KintoneFieldType,
\* a string that is no tag, or no type property at all
TypeChoices ==
    {<<Prop("type", Str(t))>> : t \in KintoneFieldType \cup {"UNRECOGNIZED"}}
        \cup {<<>>}

\* { code, name }: a user, an organization or a group
UserValue == Inline(<<Prop("code", Str("u")), Prop("name", Str("U"))>>)

\* { contentType, fileKey, name, size }
FileValue ==
    Inline(<<Prop("contentType", Str("text/plain")), Prop("fileKey", Str("k")),
             Prop("name", Str("f")), Prop("size", Str("1"))>>)

\* the rows of a subtable: one row whose record holds a NUMBER field with
\* value '' and a SINGLE_LINE_TEXT field with value undefined
SubtableValue ==
    Arr(<<Inline(<<Prop("id", Str("1")),
                   Prop("value",
                        Inline(<<Prop("n", Inline(<<Prop("type", Str("NUMBER")),
                                                    Prop("value", Str(""))>>)),
                                 Prop("t", Inline(<<Prop("type", Str("SINGLE_LINE_TEXT")),
                                                    Prop("value", Undefined)>>))>>))>>)>>)

\* its value property: absent, undefined, null, '', 'x', [], ['a'], a user,
\* [user], [file], the rows of a subtable
ValueChoices ==
    {<<Prop("value", v)>> :
        v \in {Undefined, Null, Str(""), Str("x"), Arr(<<>>), Arr(<<Str("a")>>),
               UserValue, Arr(<<UserValue>>), Arr(<<FileValue>>), SubtableValue}}
        \cup {<<>>}

\* a further property the field may carry
ExtraChoices == {<<>>, <<Prop("error", Str("e"))>>}

FieldObjects ==
    {t \o v \o x : t \in TypeChoices, v \in ValueChoices, x \in ExtraChoices}

\* arguments that are no field object
NonFieldArgs ==
    {Undefined, Null, Str(""), Str("s"), Bool(FALSE), Bool(TRUE), Num(0), Num(1),
     Arr(<<>>), Arr(<<Str("a")>>)}

NoCall == [op |-> "none"]

\* field codes: two names and two array-index keys
RecordKeys == {"a", "b", IndexKey(MaxIndexKey), IndexKey(MaxIndexKey + 1)}

\* the fields of a record: the three types that must not be empty and one
\* that may, each with null, '', [] or 'x'
RecordFields ==
    {<<Prop("type", Str(t)), Prop("value", v)>> :
        t \in {"RADIO_BUTTON", "CATEGORY", "STATUS_ASSIGNEE", "SINGLE_LINE_TEXT"},
        v \in {Null, Str(""), Arr(<<>>), Str("x")}}

\* sequences of n distinct keys
KeyLists(n) ==
    {ks \in [1..n -> RecordKeys] : \A i, j \in 1..n : ks[i] = ks[j] => i = j}

\* an entry of the record the caller builds: a new field object, or null in
\* place of one
RecordEntries == {[make |-> f] : f \in RecordFields} \cup {[hold |-> Null]}

IsNew(e) == "make" \in DOMAIN e

\* the caller holds the record with keys ks and entries es, its new field
\* objects first on the heap and the record after them
HoldsRecord(ks, es) ==
    LET n == Len(ks)
        made == SelectSeq(es, IsNew)
        refOf(i) == Ref(Len(SelectSeq(SubSeq(es, 1, i), IsNew)))
        rec == [i \in 1..n |->
                   Prop(ks[i], IF IsNew(es[i]) THEN refOf(i) ELSE es[i].hold)]
    IN  /\ heap = Append([i \in 1..Len(made) |-> made[i].make], rec)
        /\ input = Ref(Len(made) + 1)

\* the entries of a record handed to decodeKintoneRecord: a field that
\* normalization changes, a field whose value has not the shape of its type,
\* a subtable, and entries that are no objects
DecodeEntries ==
    {[make |-> <<Prop("type", Str("SINGLE_LINE_TEXT")), Prop("value", Undefined)>>],
     [make |-> <<Prop("type", Str("NUMBER")), Prop("value", Arr(<<Str("a")>>))>>],
     [make |-> <<Prop("type", Str("SUBTABLE")), Prop("value", SubtableValue)>>],
     [hold |-> Null],
     [hold |-> Str("s")]}

\* their field codes: two plain names and the name of the accessor of
\* Object.prototype
DecodeKeys == {"a", "b", "__proto__"}

\* sequences of n distinct field codes
DecodeKeyLists(n) ==
    {ks \in [1..n -> DecodeKeys] : \A i, j \in 1..n : ks[i] = ks[j] => i = j}

Init ==
    /\ call = NoCall
    /\ \/ \E obj \in FieldObjects : heap = <<obj>> /\ input = Ref(1)
       \/ heap = <<>> /\ input \in NonFieldArgs
       \/ \E n \in 0..MaxFields :
            \E ks \in DecodeKeyLists(n), es \in [1..n -> DecodeEntries] :
              HoldsRecord(ks, es)

\* the objects the caller built: its input is the last of them
Held == IF input.kind = "object" THEN input.ref ELSE 0

\* the objects the library has created
Allocated == Len(heap) - Held

\* what the caller can pass: its input, or any object the library created
Args == {input} \cup {Ref(i) : i \in (Held + 1)..Len(heap)}

ObjectArgs == {x \in Args : x.kind = "object"}

\* the type strings the caller can ask about: those of the objects on the heap
TypeArgs == {Get(heap, Ref(i), "type") : i \in 1..Len(heap)}

CallNormalizeFieldValue ==
    /\ Allocated < MaxHeap
    /\ \E field \in Args :
         LET r == normalizeFieldValue(heap, field)
         IN  /\ heap' = r.heap
             /\ call' = [op |-> "normalizeFieldValue", arg |-> field,
                         outcome |-> r.outcome]
    /\ UNCHANGED input

CallDecodeKintoneRecord ==
    /\ \E record \in ObjectArgs :
         /\ Allocated + Len(heap[record.ref]) + 1 <= MaxHeap
         /\ LET r == decodeKintoneRecord(heap, record)
            IN  /\ heap' = r.heap
                /\ call' = [op |-> "decodeKintoneRecord", arg |-> record,
                            outcome |-> r.outcome]
    /\ UNCHANGED input

CallDecodeKintoneField ==
    /\ Allocated + 2 <= MaxHeap
    /\ \E data \in Args :
         LET r == decodeKintoneField(heap, data)
         IN  /\ heap' = r.heap
             /\ call' = [op |-> "decodeKintoneField", arg |-> data,
                         outcome |-> r.outcome]
    /\ UNCHANGED input

CallValidateFieldForWrite ==
    /\ \E field \in Args :
         call' = [op |-> "validateFieldForWrite", arg |-> field,
                  outcome |-> validateFieldForWrite(heap, field)]
    /\ UNCHANGED <<heap, input>>

CallValidateRecordForWrite ==
    /\ \E record \in ObjectArgs :
         LET r == validateRecordForWrite(heap, record)
         IN  call' = [op |-> "validateRecordForWrite", arg |-> record,
                      outcome |-> r.outcome, examined |-> r.examined]
    /\ UNCHANGED <<heap, input>>

CallIsNonEmptyField ==
    /\ \E type \in TypeArgs :
         call' = [op |-> "isNonEmptyField", arg |-> type,
                  outcome |-> Return(Bool(isNonEmptyField(type)))]
    /\ UNCHANGED <<heap, input>>

CallGetEmptyValueForWrite ==
    /\ \E type \in TypeArgs :
         call' = [op |-> "getEmptyValueForWrite", arg |-> type,
                  outcome |-> getEmptyValueForWrite(type)]
    /\ UNCHANGED <<heap, input>>

Next ==
    \/ CallNormalizeFieldValue
    \/ CallDecodeKintoneField
    \/ CallDecodeKintoneRecord
    \/ CallValidateFieldForWrite
    \/ CallValidateRecordForWrite
    \/ CallIsNonEmptyField
    \/ CallGetEmptyValueForWrite

Spec == Init /\ [][Next]_vars

(***************************************************************************)
(* Records: the caller builds a record of up to MaxFields entries and      *)
(* hands it to validateRecordForWrite.                                     *)
(***************************************************************************)
InitRecord ==
    /\ call = NoCall
    /\ \E n \in 0..MaxFields :
         \E ks \in KeyLists(n), es \in [1..n -> RecordEntries] : HoldsRecord(ks, es)

NextRecord == CallValidateRecordForWrite

SpecRecord == InitRecord /\ [][NextRecord]_vars

(***************************************************************************)
(* The write path: the caller builds a record of up to MaxFields entries,  *)
(* normalizes it with decodeKintoneRecord and validates the record or the  *)
(* normalized record with validateRecordForWrite.                          *)
(***************************************************************************)
\* the entries of the record: fields of the three types that must not be
\* empty with each empty representation and with a value, a field of a type
\* that may be empty, and null and undefined in place of a field
WriteEntries ==
    {[make |-> <<Prop("type", Str("RADIO_BUTTON")), Prop("value", v)>>] :
        v \in {Undefined, Null, Str(""), Str("x")}}
    \cup {[make |-> <<Prop("type", Str(t)), Prop("value", v)>>] :
        t \in {"CATEGORY", "STATUS_ASSIGNEE"},
        v \in {Undefined, Null, Arr(<<>>), Arr(<<Str("a")>>)}}
    \cup {[make |-> <<Prop("type", Str("SINGLE_LINE_TEXT")), Prop("value", Undefined)>>],
          [hold |-> Null], [hold |-> Undefined]}

\* their field codes: a plain name, an array-index key and the name of the
\* accessor of Object.prototype
WriteKeys == {"a", IndexKey(MaxIndexKey), "__proto__"}

WriteKeyLists(n) ==
    {ks \in [1..n -> WriteKeys] : \A i, j \in 1..n : ks[i] = ks[j] => i = j}

InitWrite ==
    /\ call = NoCall
    /\ \E n \in 0..MaxFields :
         \E ks \in WriteKeyLists(n), es \in [1..n -> WriteEntries] : HoldsRecord(ks, es)

NextWrite ==
    \/ CallDecodeKintoneRecord
    \/ CallValidateRecordForWrite

SpecWrite == InitWrite /\ [][NextWrite]_vars

(***************************************************************************)
(* Callers: two callers, each holding a record of its own with one field   *)
(* under the key a, call the library in any order.  Every function is      *)
(* synchronous, without await or callback, so a call runs from its start   *)
(* to its end before another call starts: a call is one step.  Here input  *)
(* and call hold one argument and one last call for each caller.           *)
(***************************************************************************)
Callers == {1, 2}

\* the field a caller's record holds
CallerFields ==
    {<<Prop("type", Str(t)), Prop("value", v)>> :
        t \in {"RADIO_BUTTON", "CATEGORY", "SINGLE_LINE_TEXT"},
        v \in {Undefined, Null, Str("x")}}

\* the objects the callers hold: a field and a record each
HeldByCallers == 2 * Cardinality(Callers)

InitCallers ==
    /\ call = [c \in Callers |-> NoCall]
    /\ input = [c \in Callers |-> Ref(2 * c)]
    /\ \E fs \in [Callers -> CallerFields] :
         heap = [i \in 1..HeldByCallers |->
                    IF i % 2 = 1 THEN fs[(i + 1) \div 2]
                    ELSE <<Prop("a", Ref(i - 1))>>]

\* the heap before any call
InitialHeap == SubSeq(heap, 1, HeldByCallers)

\* the field of caller c
FieldOf(c) == Get(heap, input[c], "a")

CallerNormalizeFieldValue ==
    /\ Len(heap) - Len(InitialHeap) < MaxHeap
    /\ \E c \in Callers :
         LET r == normalizeFieldValue(heap, FieldOf(c))
         IN  /\ heap' = r.heap
             /\ call' = [call EXCEPT ![c] = [op |-> "normalizeFieldValue",
                                             arg |-> FieldOf(c),
                                             outcome |-> r.outcome]]
    /\ UNCHANGED input

CallerDecodeKintoneRecord ==
    /\ Len(heap) - Len(InitialHeap) + 2 <= MaxHeap
    /\ \E c \in Callers :
         LET r == decodeKintoneRecord(heap, input[c])
         IN  /\ heap' = r.heap
             /\ call' = [call EXCEPT ![c] = [op |-> "decodeKintoneRecord",
                                             arg |-> input[c],
                                             outcome |-> r.outcome]]
    /\ UNCHANGED input

CallerValidateRecordForWrite ==
    /\ \E c \in Callers :
         call' = [call EXCEPT ![c] =
                     [op |-> "validateRecordForWrite", arg |-> input[c],
                      outcome |-> validateRecordForWrite(heap, input[c]).outcome]]
    /\ UNCHANGED <<heap, input>>

CallerGetEmptyValueForWrite ==
    /\ \E c \in Callers :
         LET type == Get(heap, FieldOf(c), "type")
         IN  call' = [call EXCEPT ![c] =
                         [op |-> "getEmptyValueForWrite", arg |-> type,
                          outcome |-> getEmptyValueForWrite(type)]]
    /\ UNCHANGED <<heap, input>>

NextCallers ==
    \/ CallerNormalizeFieldValue
    \/ CallerDecodeKintoneRecord
    \/ CallerValidateRecordForWrite
    \/ CallerGetEmptyValueForWrite

SpecCallers == InitCallers /\ [][NextCallers]_vars

(***************************************************************************)
(* Subtables: the caller builds a SUBTABLE field with one row of up to     *)
(* MaxFields inner fields and decodes it with SubtableFieldSchema.         *)
(***************************************************************************)
\* a value of the shape the schema of the tag declares; rows for SUBTABLE
ShapedValue(t) ==
    CASE t \in {"NUMBER", "RADIO_BUTTON", "DROP_DOWN", "DATE", "TIME", "DATETIME"} -> Null
      [] t \in {"CHECK_BOX", "MULTI_SELECT", "CATEGORY"} -> Arr(<<Str("a")>>)
      [] t \in {"USER_SELECT", "STATUS_ASSIGNEE", "ORGANIZATION_SELECT", "GROUP_SELECT"} ->
           Arr(<<UserValue>>)
      [] t = "FILE" -> Arr(<<FileValue>>)
      [] t \in {"CREATOR", "MODIFIER"} -> UserValue
      [] t = "SUBTABLE" -> Arr(<<>>)
      [] OTHER -> Str("x")

\* the fields of a row: one well-shaped field of each tag, a field of a type
\* that is no tag, and fields whose value has not the shape of their type
InnerFields ==
    {<<Prop("type", Str(t)), Prop("value", ShapedValue(t))>> :
        t \in KintoneFieldType \cup {"UNRECOGNIZED"}}
    \cup {<<Prop("type", Str("SINGLE_LINE_TEXT")), Prop("value", Null)>>,
          <<Prop("type", Str("FILE")), Prop("value", Str(""))>>,
          <<Prop("type", Str("NUMBER"))>>}

\* the id of the row: a string, or none
IdChoices == {<<Prop("id", Str("1"))>>, <<>>}

\* the i-th field code of a row
InnerKey(i) == "f" \o ToString(i)

\* the row with the id and the inner fields fs
RowOf(id, fs) ==
    Inline(id \o <<Prop("value",
                        Inline([i \in 1..Len(fs) |-> Prop(InnerKey(i), Inline(fs[i]))]))>>)

InitSubtable ==
    /\ call = NoCall
    /\ input = Ref(1)
    /\ \/ heap = <<<<Prop("type", Str("SUBTABLE")), Prop("value", Arr(<<>>))>>>>
       \/ \E n \in 0..MaxFields :
            \E fs \in [1..n -> InnerFields], id \in IdChoices :
              heap = <<<<Prop("type", Str("SUBTABLE")),
                         Prop("value", Arr(<<RowOf(id, fs)>>))>>>>

\* one decode of the field the caller holds
CallDecodeSubtableField ==
    /\ call = NoCall
    /\ LET r == decodeSubtableField(heap, input)
       IN  /\ heap' = r.heap
           /\ call' = [op |-> "decodeSubtableField", arg |-> input,
                       outcome |-> r.outcome]
    /\ UNCHANGED input

NextSubtable == CallDecodeSubtableField

SpecSubtable == InitSubtable /\ [][NextSubtable]_vars

(***************************************************************************)
(* Form configuration: the caller builds the properties of a field, or of  *)
(* a subtable with up to MaxFields inner fields, and decodes them with the *)
(* properties schema of their type.                                        *)
(***************************************************************************)
\* the properties schemas by the type they declare
PropertiesSchemas ==
    [MULTI_LINE_TEXT |-> MultiLineTextFieldPropertiesSchema,
     FILE |-> FileFieldPropertiesSchema,
     GROUP |-> GroupFieldPropertiesSchema,
     SUBTABLE |-> SubtableFieldPropertiesSchema,
     RECORD_NUMBER |-> RecordNumberFieldPropertiesSchema,
     CREATOR |-> CreatorFieldPropertiesSchema,
     CREATED_TIME |-> CreatedTimeFieldPropertiesSchema,
     MODIFIER |-> ModifierFieldPropertiesSchema,
     UPDATED_TIME |-> UpdatedTimeFieldPropertiesSchema,
     STATUS |-> StatusFieldPropertiesSchema,
     STATUS_ASSIGNEE |-> StatusAssigneeFieldPropertiesSchema,
     CATEGORY |-> CategoryFieldPropertiesSchema]

\* a value of the schema with every required property and no other: '' for
\* a string, false, the first literal, the code 'a', [] and {}
RECURSIVE ExampleOf(_)
ExampleOf(s) ==
    CASE s.schema = "String" -> Str("")
      [] s.schema = "Boolean" -> Bool(FALSE)
      [] s.schema = "Literal" -> CHOOSE l \in s.literals : TRUE
      [] s.schema \in {"SystemFieldCode", "UserFieldCode"} -> Text(<<97>>)
      [] s.schema = "Array" -> Arr(<<>>)
      [] s.schema = "Record" -> Inline(<<>>)
      [] s.schema = "Struct" ->
           LET required == SelectSeq(s.props, LAMBDA p : ~p.optional)
           IN  Inline([i \in 1..Len(required) |->
                          Prop(required[i].name, ExampleOf(required[i].schema))])
      [] s.schema = "Union" -> ExampleOf(s.members[1])

\* the characters the caller spells field codes with: a, 1, _, -, $ and the
\* hiragana letter a
CodeCharacters == {97, 49, 95, 45, 36, 12354}

\* the codes: every spelling of up to MaxCodeLen characters, the reserved
\* words, and null in place of a string
FieldCodes ==
    {Text(units) : units \in UNION {[1..n -> CodeCharacters] : n \in 0..MaxCodeLen}}
    \cup {Text(word) : word \in RESERVED_FIELD_CODES}
    \cup {Null}

\* the properties of a field that is no subtable, with the code
FieldProperties ==
    {SpreadWith(ExampleOf(PropertiesSchemas[t]).props, "code", code) :
        t \in DOMAIN PropertiesSchemas \ {"SUBTABLE"}, code \in FieldCodes}

\* the inner fields of a subtable: one of each member of SubtableFieldSchema,
\* a USER_SELECT with an entity, fields of other types, and a field that
\* lacks the property required
InnerProperties ==
    {ExampleOf(SubtableFieldSchema.members[i]).props :
        i \in 1..Len(SubtableFieldSchema.members)}
    \cup {SpreadWith(ExampleOf(SubtableUserSelectFieldPropertiesSchema).props, "entities",
                     Arr(<<Inline(<<Prop("type", Str("USER")),
                                    Prop("code", Text(<<97>>))>>)>>))}
    \cup {SpreadWith(ExampleOf(BaseSubtableFieldPropertiesSchema).props, "type", Str(t)) :
            t \in {"SUBTABLE", "REFERENCE_TABLE", "GROUP", "CREATOR", "STATUS"}}
    \cup {SelectSeq(ExampleOf(SubtableDateFieldPropertiesSchema).props,
                    LAMBDA p : p.key # "required")}

\* the properties of the subtable with the inner fields fs
SubtableProperties(fs) ==
    <<Prop("type", Str("SUBTABLE")), Prop("code", Text(<<97>>)),
      Prop("fields", Inline([i \in 1..Len(fs) |-> Prop(InnerKey(i), Inline(fs[i]))]))>>

InitForm ==
    /\ call = NoCall
    /\ input = Ref(1)
    /\ \/ \E properties \in FieldProperties : heap = <<properties>>
       \/ \E n \in 0..MaxFields :
            \E fs \in [1..n -> InnerProperties] : heap = <<SubtableProperties(fs)>>

\* Schema.decodeUnknownSync(schema)(input), with the properties schema of
\* the type of the input
CallDecodeFieldProperties ==
    /\ call = NoCall
    /\ LET type == Get(heap, input, "type").str
           r == decodeProperties(heap, PropertiesSchemas[type], input)
       IN  /\ heap' = r.heap
           /\ call' = [op |-> "decodeProperties", schema |-> type, arg |-> input,
                       outcome |-> r.outcome]
    /\ UNCHANGED input

\* Schema.decodeUnknownSync(SubtableFieldPropertiesSchema)(input)
CallDecodeSubtableFieldProperties ==
    /\ call = NoCall
    /\ LET r == decodeProperties(heap, SubtableFieldPropertiesSchema, input)
       IN  /\ heap' = r.heap
           /\ call' = [op |-> "decodeProperties", schema |-> "SUBTABLE", arg |-> input,
                       outcome |-> r.outcome]
    /\ UNCHANGED input

NextForm ==
    \/ CallDecodeFieldProperties
    \/ CallDecodeSubtableFieldProperties

SpecForm == InitForm /\ [][NextForm]_vars

(***************************************************************************)
(* Code generation: the caller hands a field code of up to MaxCodeLen + 1  *)
(* characters to fieldConfigToTypeScriptCode.                              *)
(***************************************************************************)
\* the characters of the codes: a, 1, _, -, $, the hiragana letter a and the
\* full-width digit 1
VariableCharacters == {97, 49, 95, 45, 36, 12354, 65297}

InitVariable ==
    /\ call = NoCall
    /\ heap = <<>>
    /\ \E n \in 0..(MaxCodeLen + 1) :
         \E units \in [1..n -> VariableCharacters] : input = Text(units)

CallFieldConfigToTypeScriptCode ==
    /\ call = NoCall
    /\ call' = [op |-> "toVariableName", arg |-> input,
                outcome |-> Return(Text(VariableNameOf(input.units)))]
    /\ UNCHANGED <<heap, input>>

NextVariable == CallFieldConfigToTypeScriptCode

SpecVariable == InitVariable /\ [][NextVariable]_vars

(***************************************************************************)
(* Properties of validateFieldForWrite, isNonEmptyField and                *)
(* getEmptyValueForWrite, checked under Spec.                              *)
(***************************************************************************)
\* the call just made, on a field object
Called(op) == call.op = op

CalledOnObject(op) == call.op = op /\ call.arg.kind = "object"

ArgType == Get(heap, call.arg, "type")

ArgValue == Get(heap, call.arg, "value")

Raised == call.outcome.kind = "throw"

RaisedValidationError(type) ==
    /\ Raised
    /\ call.outcome.error.name = "KintoneValidationError"
    /\ call.outcome.error.fieldType = type

\* C1: validateFieldForWrite({type, value}) raises a KintoneValidationError
\* exactly when type is RADIO_BUTTON and value is null or '', or type is
\* CATEGORY or STATUS_ASSIGNEE and value is an array of length 0; on every
\* other pair it returns normally; the error's fieldType is the field's type.
C1_ValidateFieldRaisesExactlyOnEmpty ==
    CalledOnObject("validateFieldForWrite") =>
        LET empty ==
              \/ /\ ArgType = Str("RADIO_BUTTON")
                 /\ ArgValue \in {Null, Str("")}
              \/ /\ ArgType \in {Str("CATEGORY"), Str("STATUS_ASSIGNEE")}
                 /\ ArgValue.kind = "array"
                 /\ Len(ArgValue.items) = 0
        IN  /\ empty => RaisedValidationError(ArgType)
            /\ ~empty => call.outcome = Return(Undefined)

C1_Witness ==
    /\ CalledOnObject("validateFieldForWrite")
    /\ ArgType = Str("RADIO_BUTTON")
    /\ ArgValue = Str("")
    /\ RaisedValidationError(Str("RADIO_BUTTON"))

\* C4: getEmptyValueForWrite(type) raises a KintoneValidationError for exactly
\* RADIO_BUTTON, CATEGORY and STATUS_ASSIGNEE, that is exactly when
\* isNonEmptyField(type) is true, and returns a value for every other type;
\* the error's fieldType is the requested type.
C4_GetEmptyValueRaisesExactlyForNonEmpty ==
    Called("getEmptyValueForWrite") =>
        LET nonEmpty ==
              call.arg \in {Str("RADIO_BUTTON"), Str("CATEGORY"), Str("STATUS_ASSIGNEE")}
        IN  /\ nonEmpty <=> isNonEmptyField(call.arg)
            /\ nonEmpty => RaisedValidationError(call.arg)
            /\ ~nonEmpty => call.outcome.kind = "return"

C4_Witness ==
    /\ Called("getEmptyValueForWrite")
    /\ call.arg = Str("CATEGORY")
    /\ RaisedValidationError(Str("CATEGORY"))

\* C5: where it does not raise, getEmptyValueForWrite returns '' for
\* SINGLE_LINE_TEXT, MULTI_LINE_TEXT, RICH_TEXT, LINK, LOOKUP; null for NUMBER,
\* DATE, TIME, DATETIME, DROP_DOWN; [] for CHECK_BOX, MULTI_SELECT,
\* USER_SELECT, ORGANIZATION_SELECT, GROUP_SELECT, FILE; and '' for every
\* other or unrecognized tag.
C5_GetEmptyValueTable ==
    (Called("getEmptyValueForWrite") /\ ~Raised) =>
        LET t == call.arg
            strings == {Str("SINGLE_LINE_TEXT"), Str("MULTI_LINE_TEXT"),
                        Str("RICH_TEXT"), Str("LINK"), Str("LOOKUP")}
            nulls == {Str("NUMBER"), Str("DATE"), Str("TIME"), Str("DATETIME"),
                      Str("DROP_DOWN")}
            arrays == {Str("CHECK_BOX"), Str("MULTI_SELECT"), Str("USER_SELECT"),
                       Str("ORGANIZATION_SELECT"), Str("GROUP_SELECT"), Str("FILE")}
        IN  /\ t \in strings => call.outcome.value = Str("")
            /\ t \in nulls => call.outcome.value = Null
            /\ t \in arrays => call.outcome.value = Arr(<<>>)
            /\ t \notin strings \cup nulls \cup arrays => call.outcome.value = Str("")

C5_Witness ==
    /\ Called("getEmptyValueForWrite")
    /\ call.arg = Str("DROP_DOWN")
    /\ call.outcome = Return(Null)

\* C6: isNonEmptyField(type) returns true exactly for RADIO_BUTTON, CATEGORY
\* and STATUS_ASSIGNEE and false for every other type, unrecognized type
\* strings included; it never raises.
C6_IsNonEmptyFieldExactlyThree ==
    Called("isNonEmptyField") =>
        call.outcome =
            Return(Bool(call.arg \in {Str("RADIO_BUTTON"), Str("CATEGORY"),
                                      Str("STATUS_ASSIGNEE")}))

C6_Witness ==
    /\ Called("isNonEmptyField")
    /\ call.arg = Str("STATUS_ASSIGNEE")
    /\ call.outcome = Return(Bool(TRUE))

(***************************************************************************)
(* Properties of normalizeFieldValue, checked under Spec.                  *)
(***************************************************************************)
\* normalizeFieldValue returned an object that has a value property
ReturnedField ==
    /\ call.outcome.kind = "return"
    /\ call.outcome.value.kind = "object"
    /\ HasOwn(heap[call.outcome.value.ref], "value")

\* the value property of the returned field
ResultValue == Get(heap, call.outcome.value, "value")

\* C7: for SINGLE_LINE_TEXT, MULTI_LINE_TEXT, LINK and LOOKUP,
\* normalizeFieldValue replaces value by '' when it is undefined or absent and
\* leaves every other value unchanged, null included.
C7_StringTypesUndefinedToEmptyString ==
    (CalledOnObject("normalizeFieldValue")
        /\ ArgType \in {Str("SINGLE_LINE_TEXT"), Str("MULTI_LINE_TEXT"),
                         Str("LINK"), Str("LOOKUP")}) =>
        /\ ReturnedField
        /\ ArgValue = Undefined => ResultValue = Str("")
        /\ ArgValue # Undefined => ResultValue = ArgValue

C7_Witness ==
    /\ CalledOnObject("normalizeFieldValue")
    /\ ArgType = Str("LOOKUP")
    /\ ArgValue = Null
    /\ ReturnedField
    /\ ResultValue = Null

\* C8: for NUMBER, DATETIME, DROP_DOWN and RADIO_BUTTON, normalizeFieldValue
\* replaces value by null when it is undefined or '' and leaves every other
\* value unchanged.
C8_BlankToNull ==
    (CalledOnObject("normalizeFieldValue")
        /\ ArgType \in {Str("NUMBER"), Str("DATETIME"), Str("DROP_DOWN"),
                         Str("RADIO_BUTTON")}) =>
        /\ ReturnedField
        /\ ArgValue \in {Undefined, Str("")} => ResultValue = Null
        /\ ArgValue \notin {Undefined, Str("")} => ResultValue = ArgValue

C8_Witness ==
    /\ CalledOnObject("normalizeFieldValue")
    /\ ArgType = Str("DROP_DOWN")
    /\ ArgValue = Str("")
    /\ ReturnedField
    /\ ResultValue = Null

\* C9: for DATE and TIME, normalizeFieldValue replaces value by null only when
\* it is undefined; every other value, '' included, is left unchanged.
C9_DateTimeOnlyUndefinedToNull ==
    (CalledOnObject("normalizeFieldValue")
        /\ ArgType \in {Str("DATE"), Str("TIME")}) =>
        /\ ReturnedField
        /\ ArgValue = Undefined => ResultValue = Null
        /\ ArgValue # Undefined => ResultValue = ArgValue

C9_Witness ==
    /\ CalledOnObject("normalizeFieldValue")
    /\ ArgType = Str("TIME")
    /\ ArgValue = Str("")
    /\ ReturnedField
    /\ ResultValue = Str("")

\* C10: for CHECK_BOX, MULTI_SELECT, USER_SELECT, ORGANIZATION_SELECT,
\* GROUP_SELECT, FILE, CATEGORY and STATUS_ASSIGNEE, normalizeFieldValue
\* replaces value by [] when it is undefined or null and leaves every other
\* value unchanged.
C10_ArrayTypesNullToEmptyArray ==
    (CalledOnObject("normalizeFieldValue")
        /\ ArgType \in {Str("CHECK_BOX"), Str("MULTI_SELECT"), Str("USER_SELECT"),
                         Str("ORGANIZATION_SELECT"), Str("GROUP_SELECT"),
                         Str("FILE"), Str("CATEGORY"), Str("STATUS_ASSIGNEE")}) =>
        /\ ReturnedField
        /\ ArgValue \in {Undefined, Null} => ResultValue = Arr(<<>>)
        /\ ArgValue \notin {Undefined, Null} => ResultValue = ArgValue

C10_Witness ==
    /\ CalledOnObject("normalizeFieldValue")
    /\ ArgType = Str("STATUS_ASSIGNEE")
    /\ ArgValue = Null
    /\ ReturnedField
    /\ ResultValue = Arr(<<>>)

(***************************************************************************)
(* Properties of validateRecordForWrite, checked under SpecRecord.         *)
(***************************************************************************)
\* the record validateRecordForWrite was called on, in insertion order
ArgRecord == PropsOf(heap, call.arg)

\* the outcome of validateFieldForWrite on an entry of the record
FieldOutcome(entry) == validateFieldForWrite(heap, entry.val)

\* the message of a field-level error once the record level has put the
\* field code k before it
WithFieldCode(k, message) == "Field \"" \o k \o "\": " \o message

\* err is the error validateRecordForWrite raises for a rejected entry
ErrorBelongsTo(err, entry) ==
    LET fe == FieldOutcome(entry).error
    IN  IF fe.name = "KintoneValidationError"
        THEN /\ err.name = "KintoneValidationError"
             /\ err.fieldType = fe.fieldType
             /\ err.message = WithFieldCode(entry.key, fe.message)
        ELSE err = fe

\* validateRecordForWrite went through the entries es in this order, failing
\* fast: it returns iff no entry is rejected, else it raises the error of
\* the first rejected entry and has examined no entry after it
FailFastOver(es) ==
    LET rejected(i) == FieldOutcome(es[i]).kind = "throw"
        first == {i \in 1..Len(es) : rejected(i) /\ \A j \in 1..(i - 1) : ~rejected(j)}
    IN  /\ call.outcome.kind = "return" <=> \A i \in 1..Len(es) : ~rejected(i)
        /\ \A i \in first :
             /\ Raised
             /\ ErrorBelongsTo(call.outcome.error, es[i])
             /\ \A x \in 1..Len(call.examined) :
                    \E j \in 1..i : call.examined[x] = es[j].key

\* k is a canonical array index, "0", "1", ...
IsArrayIndex(k) == \E n \in 0..(MaxIndexKey + 1) : ToString(n) = k

ArrayIndex(k) == CHOOSE n \in 0..(MaxIndexKey + 1) : ToString(n) = k

\* the order of the own keys of an object: array indices in ascending numeric
\* order come first, the other keys follow in insertion order
KeyOrder(rec) ==
    LET n == Len(rec)
        before(p, q) ==
            CASE IsArrayIndex(rec[p].key) /\ IsArrayIndex(rec[q].key) ->
                   ArrayIndex(rec[p].key) < ArrayIndex(rec[q].key)
              [] IsArrayIndex(rec[p].key) -> TRUE
              [] IsArrayIndex(rec[q].key) -> FALSE
              [] OTHER -> p < q
        perm == CHOOSE f \in [1..n -> 1..n] :
                    \A a, b \in 1..n : a < b => before(f[a], f[b])
    IN  [a \in 1..n |-> rec[perm[a]]]

\* C2 as stated: validateRecordForWrite returns normally iff no field is
\* rejected by validateFieldForWrite; otherwise it raises the error of the
\* first rejected field in the insertion order of the record's keys and
\* examines no field after it, whatever the key strings are.
C2_FailFastInInsertionOrder ==
    Called("validateRecordForWrite") => FailFastOver(ArgRecord)

\* C2 amended: validateRecordForWrite returns normally iff no field is
\* rejected by validateFieldForWrite; otherwise it raises the error of the
\* first rejected field in the order of Object.entries (keys that are array
\* indices in ascending numeric order, then the other keys in insertion
\* order) and examines no field after it; where no key of the record is an
\* array index this is the insertion order.
C2_FailFastInObjectEntriesOrder ==
    Called("validateRecordForWrite") =>
        /\ FailFastOver(KeyOrder(ArgRecord))
        /\ \A x \in 1..Len(call.examined) :
               call.examined[x] = KeyOrder(ArgRecord)[x].key
        /\ (\A i \in 1..Len(ArgRecord) : ~IsArrayIndex(ArgRecord[i].key)) =>
               FailFastOver(ArgRecord)

\* offending fields under keys a then b: the error names a, b is not examined
C2_Witness ==
    /\ Called("validateRecordForWrite")
    /\ Len(ArgRecord) = 2
    /\ ArgRecord[1].key = "a"
    /\ ArgRecord[2].key = "b"
    /\ FieldOutcome(ArgRecord[1]).kind = "throw"
    /\ FieldOutcome(ArgRecord[2]).kind = "throw"
    /\ Raised
    /\ call.outcome.error.message =
           WithFieldCode("a", FieldOutcome(ArgRecord[1]).error.message)
    /\ call.examined = <<"a">>

\* the entry validateRecordForWrite examined last
LastExamined == GetOwn(ArgRecord, call.examined[Len(call.examined)])

\* C3: when validateRecordForWrite raises because the field under key k was
\* rejected, the error is a KintoneValidationError with the fieldType of the
\* error validateFieldForWrite raised for that field (the field's type), and
\* its message is the field-level message, unchanged, after a prefix that
\* names k in double quotes, followed by a colon and a space.
C3_RecordErrorKeepsFieldTypeAndPrefixesKey ==
    (Called("validateRecordForWrite") /\ Raised
        /\ validateFieldForWrite(heap, LastExamined).error.name
               = "KintoneValidationError") =>
        LET k == call.examined[Len(call.examined)]
            fe == validateFieldForWrite(heap, LastExamined).error
        IN  /\ call.outcome.error.name = "KintoneValidationError"
            /\ call.outcome.error.fieldType = fe.fieldType
            /\ call.outcome.error.fieldType = Get(heap, LastExamined, "type")
            /\ call.outcome.error.message = "Field \"" \o k \o "\": " \o fe.message

C3_Witness ==
    /\ Called("validateRecordForWrite")
    /\ Raised
    /\ call.examined = <<"a", "b">>
    /\ call.outcome.error =
           KintoneValidationError(Str("CATEGORY"),
               "Field \"b\": CATEGORY field cannot have an empty value")

(***************************************************************************)
(* Properties of normalizeFieldValue on the fields it has no rule for, on  *)
(* the properties other than value, and on arguments that are no objects.  *)
(***************************************************************************)
\* the types normalizeFieldValue has a rule for
TypesWithRule ==
    {Str(t) : t \in {"SINGLE_LINE_TEXT", "MULTI_LINE_TEXT", "LINK", "LOOKUP",
                     "NUMBER", "DATETIME", "DATE", "TIME", "DROP_DOWN",
                     "RADIO_BUTTON", "CHECK_BOX", "MULTI_SELECT", "USER_SELECT",
                     "ORGANIZATION_SELECT", "GROUP_SELECT", "FILE", "CATEGORY",
                     "STATUS_ASSIGNEE"}}

\* C11: for RICH_TEXT, CALC, STATUS, CREATOR, every other tag without a rule
\* (RECORD_NUMBER, MODIFIER, SUBTABLE, ...) and an unrecognized or missing
\* type, normalizeFieldValue returns the field it was given, unchanged, for
\* every value: undefined stays undefined, null stays null, '' stays ''.
C11_NoRuleReturnsFieldUnchanged ==
    (CalledOnObject("normalizeFieldValue") /\ ArgType \notin TypesWithRule) =>
        /\ call.outcome = Return(call.arg)
        /\ ResultValue = ArgValue

C11_Witness ==
    /\ CalledOnObject("normalizeFieldValue")
    /\ ArgType = Str("CALC")
    /\ ArgValue = Undefined
    /\ call.outcome = Return(call.arg)
    /\ ResultValue = Undefined

\* the own keys of an object other than value
OtherKeys(obj) == {obj[i].key : i \in 1..Len(obj)} \ {"value"}

\* C13: for every object input, the result of normalizeFieldValue has the
\* same type and the same value for every property other than value: extra
\* properties are neither dropped, added nor altered.
C13_OtherPropertiesKept ==
    /\ CalledOnObject("normalizeFieldValue") =>
          /\ call.outcome.kind = "return"
          /\ call.outcome.value.kind = "object"
          /\ LET given == PropsOf(heap, call.arg)
                 result == PropsOf(heap, call.outcome.value)
             IN  /\ OtherKeys(result) = OtherKeys(given)
                 /\ \A k \in OtherKeys(given) : GetOwn(result, k) = GetOwn(given, k)
    /\ (Called("normalizeFieldValue") /\ IsArray(call.arg)) =>
          call.outcome = Return(call.arg)

C13_Witness ==
    /\ CalledOnObject("normalizeFieldValue")
    /\ ArgType = Str("NUMBER")
    /\ ArgValue = Str("")
    /\ Get(heap, call.arg, "error") = Str("e")
    /\ call.outcome.value # call.arg
    /\ ResultValue = Null
    /\ Get(heap, call.outcome.value, "type") = Str("NUMBER")
    /\ Get(heap, call.outcome.value, "error") = Str("e")

\* C14: normalizeFieldValue never raises.  For null, undefined and every
\* input that is no object (a string, a number, a boolean) it returns the
\* input itself; for every object input (a field without value, without
\* type, with an unrecognized type, an array) it returns without raising.
C14_NormalizeNeverRaises ==
    Called("normalizeFieldValue") =>
        /\ call.outcome.kind = "return"
        /\ call.arg.kind \in {"null", "undefined", "string", "number", "boolean"} =>
              call.outcome = Return(call.arg)

C14_Witness ==
    /\ Called("normalizeFieldValue")
    /\ call.arg = Null
    /\ call.outcome = Return(Null)

(***************************************************************************)
(* Properties of decodeKintoneRecord, idempotence, and the arguments being *)
(* left as they were.                                                      *)
(***************************************************************************)
\* a value with every reference in it replaced by the own properties of
\* the object it refers to
RECURSIVE Structure(_, _)
Structure(h, v) ==
    IF v.kind = "object"
    THEN [kind |-> "struct",
          props |-> [i \in 1..Len(PropsOf(h, v)) |->
                        Prop(PropsOf(h, v)[i].key, Structure(h, PropsOf(h, v)[i].val))]]
    ELSE v

Returned == call.outcome.kind = "return"

\* C12: normalizeFieldValue is idempotent up to structural equality, for
\* every input, those that are no objects included: normalizing the result
\* of a normalization yields an equal result.  The same holds for
\* decodeKintoneRecord applied to its own result.
C12_Idempotent ==
    /\ (Called("normalizeFieldValue") /\ Returned) =>
          LET again == normalizeFieldValue(heap, call.outcome.value)
          IN  /\ again.outcome.kind = "return"
              /\ Structure(again.heap, again.outcome.value)
                     = Structure(heap, call.outcome.value)
    /\ (Called("decodeKintoneRecord") /\ Returned) =>
          LET again == decodeKintoneRecord(heap, call.outcome.value)
          IN  /\ again.outcome.kind = "return"
              /\ Structure(again.heap, again.outcome.value)
                     = Structure(heap, call.outcome.value)

\* normalizeFieldValue was called on a result of normalizeFieldValue that
\* differed from its input, or decodeKintoneRecord on an object the library
\* returned
C12_Witness ==
    \/ /\ CalledOnObject("normalizeFieldValue")
       /\ call.arg.ref > Held
       /\ ArgType = Str("DATETIME")
       /\ ArgValue = Null
       /\ Get(heap, input, "value") = Str("")
       /\ ResultValue = Null
    \/ /\ Called("decodeKintoneRecord")
       /\ call.arg.ref > Held
       /\ call.outcome.value # call.arg
       /\ Structure(heap, call.outcome.value) = Structure(heap, call.arg)

\* the own keys of an object
Keys(obj) == {obj[i].key : i \in 1..Len(obj)}

\* C15: decodeKintoneRecord(record) returns a new record with exactly the
\* keys of record, each key k mapped to normalizeFieldValue(record[k]).  It
\* checks no structure: it returns normally for entries that are no objects
\* and for fields whose value has not the shape of their type.
C15_DecodeRecordMapsNormalize ==
    CalledOnObject("decodeKintoneRecord") =>
        /\ Returned
        /\ call.outcome.value.kind = "object"
        /\ call.outcome.value # call.arg
        /\ LET record == PropsOf(heap, call.arg)
               result == PropsOf(heap, call.outcome.value)
           IN  /\ Keys(result) = Keys(record)
               /\ Len(result) = Len(record)
               /\ \A k \in Keys(record) :
                    LET n == normalizeFieldValue(heap, GetOwn(record, k))
                    IN  /\ n.outcome.kind = "return"
                        /\ Structure(heap, GetOwn(result, k))
                               = Structure(n.heap, n.outcome.value)
                        /\ n.outcome.value = GetOwn(record, k)
                               <=> GetOwn(result, k) = GetOwn(record, k)

\* a record whose entries are a SINGLE_LINE_TEXT field without value, and
\* null
C15_Witness ==
    /\ CalledOnObject("decodeKintoneRecord")
    /\ call.arg = input
    /\ Keys(PropsOf(heap, input)) = {"a", "b"}
    /\ Get(heap, Get(heap, input, "a"), "type") = Str("SINGLE_LINE_TEXT")
    /\ Get(heap, Get(heap, input, "a"), "value") = Undefined
    /\ Get(heap, input, "b") = Null
    /\ Returned
    /\ Keys(PropsOf(heap, call.outcome.value)) = {"a", "b"}
    /\ Get(heap, Get(heap, call.outcome.value, "a"), "type") = Str("SINGLE_LINE_TEXT")
    /\ Get(heap, Get(heap, call.outcome.value, "a"), "value") = Str("")
    /\ Get(heap, call.outcome.value, "b") = Null

\* the keys of a record under which a SUBTABLE field is held
SubtableKeys(h, record) ==
    {k \in Keys(PropsOf(h, record)) : Get(h, Get(h, record, k), "type") = Str("SUBTABLE")}

\* C16: decodeKintoneRecord does not descend into subtables: a top-level
\* SUBTABLE field is returned as it was, and the fields inside its rows keep
\* their values (an inner NUMBER '' stays '', an inner SINGLE_LINE_TEXT
\* undefined stays undefined).
C16_SubtableNotDescended ==
    [][(call'.op = "decodeKintoneRecord" /\ call'.outcome.kind = "return") =>
         \A k \in SubtableKeys(heap, call'.arg) :
            /\ Get(heap', call'.outcome.value, k) = Get(heap, call'.arg, k)
            /\ Structure(heap', Get(heap', call'.outcome.value, k))
                   = Structure(heap, Get(heap, call'.arg, k))]_vars

\* the value of the field under key k inside the first row of a subtable
InnerValue(rows, k) == Get(heap, Get(heap, Get(heap, rows.items[1], "value"), k), "value")

C16_Witness ==
    /\ CalledOnObject("decodeKintoneRecord")
    /\ Returned
    /\ "a" \in SubtableKeys(heap, call.arg)
    /\ LET field == Get(heap, call.outcome.value, "a")
       IN  /\ field = Get(heap, call.arg, "a")
           /\ Get(heap, field, "value") = SubtableValue
           /\ InnerValue(Get(heap, field, "value"), "n") = Str("")
           /\ InnerValue(Get(heap, field, "value"), "t") = Undefined
    /\ Get(heap, Get(heap, call.outcome.value, "b"), "value") = Str("")
    /\ Get(heap, Get(heap, call.arg, "b"), "value") = Undefined

\* C20: no operation mutates its argument: over any sequence of calls of
\* normalizeFieldValue, decodeKintoneRecord, validateFieldForWrite and
\* validateRecordForWrite, every field object and every record keeps its
\* keys and the values of its properties.
C20_ArgumentsNotMutated ==
    [][/\ Len(heap') >= Len(heap)
       /\ \A i \in 1..Len(heap) : heap'[i] = heap[i]]_vars

\* decodeKintoneRecord normalized a SINGLE_LINE_TEXT field with value
\* undefined to '', and the field handed in still has value undefined
C20_Witness ==
    /\ CalledOnObject("decodeKintoneRecord")
    /\ call.arg = input
    /\ Returned
    /\ Get(heap, Get(heap, input, "a"), "type") = Str("SINGLE_LINE_TEXT")
    /\ Get(heap, Get(heap, input, "a"), "value") = Undefined
    /\ Get(heap, Get(heap, call.outcome.value, "a"), "value") = Str("")
    /\ Keys(PropsOf(heap, input)) = {"a"}

(***************************************************************************)
(* Properties of decodeKintoneField, and of normalization against          *)
(* getEmptyValueForWrite.                                                  *)
(***************************************************************************)
TextTypes == {Str("SINGLE_LINE_TEXT"), Str("MULTI_LINE_TEXT"), Str("LINK"), Str("LOOKUP")}

BlankToNullTypes == {Str("NUMBER"), Str("DATETIME"), Str("DROP_DOWN"), Str("RADIO_BUTTON")}

DateTimeTypes == {Str("DATE"), Str("TIME")}

ArrayTypes ==
    {Str("CHECK_BOX"), Str("MULTI_SELECT"), Str("USER_SELECT"),
     Str("ORGANIZATION_SELECT"), Str("GROUP_SELECT"), Str("FILE"),
     Str("CATEGORY"), Str("STATUS_ASSIGNEE")}

\* the type and the value the field handed in owns
OwnType == GetOwn(PropsOf(heap, call.arg), "type")

OwnValue == GetOwn(PropsOf(heap, call.arg), "value")

\* value is an empty representation the rule of type canonicalizes
IsEmptyRepresentation(type, value) ==
    \/ type \in TextTypes /\ value = Undefined
    \/ type \in BlankToNullTypes /\ value \in {Undefined, Str("")}
    \/ type \in DateTimeTypes /\ value = Undefined
    \/ type \in ArrayTypes /\ value \in {Undefined, Null}

\* the canonical empty value of a type that has a rule
CanonicalEmpty(type) ==
    CASE type \in TextTypes -> Str("")
      [] type \in BlankToNullTypes \cup DateTimeTypes -> Null
      [] type \in ArrayTypes -> Arr(<<>>)

\* C17: decodeKintoneField normalizes first and applies the structural
\* schema second: for every type with a normalization rule and every empty
\* representation the rule canonicalizes (undefined; also '' or null where
\* the rule covers it), decodeKintoneField succeeds and returns
\* {type, value: the canonical empty value}, never a structural error.
C17_DecodeFieldAcceptsCanonicalizedEmpties ==
    (CalledOnObject("decodeKintoneField") /\ IsEmptyRepresentation(OwnType, OwnValue)) =>
        /\ Returned
        /\ call.outcome.value.kind = "object"
        /\ PropsOf(heap, call.outcome.value)
               = <<Prop("type", OwnType), Prop("value", CanonicalEmpty(OwnType))>>

C17_Witness ==
    /\ CalledOnObject("decodeKintoneField")
    /\ call.arg = input
    /\ heap[input.ref] = <<Prop("type", Str("USER_SELECT")), Prop("value", Null),
                           Prop("error", Str("e"))>>
    /\ Returned
    /\ PropsOf(heap, call.outcome.value)
           = <<Prop("type", Str("USER_SELECT")), Prop("value", Arr(<<>>))>>

\* v is an object with exactly the string properties names
IsPlainStruct(v, names) ==
    /\ v.kind = "inline"
    /\ {v.props[i].key : i \in 1..Len(v.props)} = names
    /\ \A i \in 1..Len(v.props) : v.props[i].val.kind = "string"

IsArrayOf(v, P(_)) == v.kind = "array" /\ \A i \in 1..Len(v.items) : P(v.items[i])

IsEntity(v) == IsPlainStruct(v, {"code", "name"})

IsFile(v) == IsPlainStruct(v, {"contentType", "fileKey", "name", "size"})

\* a row of a subtable: { id, value: record }
IsRow(v) ==
    /\ v.kind = "inline"
    /\ Get(heap, v, "id").kind = "string"
    /\ Get(heap, v, "value").kind = "inline"

\* value has the shape declared for the tag type
HasDeclaredShape(type, value) ==
    CASE type \in {Str(t) : t \in {"SINGLE_LINE_TEXT", "MULTI_LINE_TEXT", "RICH_TEXT",
                                   "CALC", "LINK", "RECORD_NUMBER", "CREATED_TIME",
                                   "UPDATED_TIME", "STATUS", "LOOKUP", "RECORD_ID",
                                   "REVISION"}} ->
           value.kind = "string"
      [] type \in {Str(t) : t \in {"NUMBER", "RADIO_BUTTON", "DROP_DOWN", "DATE",
                                   "TIME", "DATETIME"}} ->
           value.kind \in {"string", "null"}
      [] type \in {Str("CHECK_BOX"), Str("MULTI_SELECT"), Str("CATEGORY")} ->
           IsArrayOf(value, LAMBDA x : x.kind = "string")
      [] type \in {Str("USER_SELECT"), Str("ORGANIZATION_SELECT"),
                   Str("GROUP_SELECT"), Str("STATUS_ASSIGNEE")} ->
           IsArrayOf(value, IsEntity)
      [] type = Str("FILE") -> IsArrayOf(value, IsFile)
      [] type \in {Str("CREATOR"), Str("MODIFIER")} -> IsEntity(value)
      [] type = Str("SUBTABLE") -> IsArrayOf(value, IsRow)
      [] OTHER -> FALSE

RaisedParseError == Raised /\ call.outcome.error = ParseError

\* the structural decode recognizes exactly the tags of the set tags
RecognizesExactly(tags) ==
    CalledOnObject("decodeKintoneField") =>
        /\ OwnType \notin tags => RaisedParseError
        /\ (OwnType \in tags /\ HasDeclaredShape(OwnType, OwnValue)) => Returned

EmptyOnWriteTypes ==
    {Str(t) : t \in {"SINGLE_LINE_TEXT", "MULTI_LINE_TEXT", "LINK", "LOOKUP",
                     "NUMBER", "DATETIME", "DATE", "TIME", "DROP_DOWN",
                     "CHECK_BOX", "MULTI_SELECT", "USER_SELECT",
                     "ORGANIZATION_SELECT", "GROUP_SELECT", "FILE"}}

\* C19: for every type that has a normalization rule and may be empty on
\* write, the value normalizeFieldValue produces from an undefined value
\* equals getEmptyValueForWrite(type).
C19_NormalizedEmptyIsWriteEmpty ==
    (CalledOnObject("normalizeFieldValue") /\ ArgType \in EmptyOnWriteTypes
        /\ ArgValue = Undefined) =>
        /\ ReturnedField
        /\ getEmptyValueForWrite(ArgType) = Return(ResultValue)

C19_Witness ==
    /\ CalledOnObject("normalizeFieldValue")
    /\ ArgType = Str("FILE")
    /\ ArgValue = Undefined
    /\ ResultValue = Arr(<<>>)
    /\ getEmptyValueForWrite(Str("FILE")) = Return(Arr(<<>>))

(***************************************************************************)
(* Properties of the objects the calls return against the objects they     *)
(* were given.                                                             *)
(***************************************************************************)
\* the entries of the record decodeKintoneRecord returned that are objects
ObjectEntryKeys ==
    {k \in Keys(PropsOf(heap, call.outcome.value)) :
        GetOwn(PropsOf(heap, call.outcome.value), k).kind = "object"}

\* C21, as claimed: every call constructs a fresh output: for every object
\* input, whatever its type, normalizeFieldValue returns a newly created
\* field object that is never the input object itself, and so is every field
\* inside the record decodeKintoneRecord returns.
C21_OutputNeverTheInput ==
    /\ CalledOnObject("normalizeFieldValue") =>
          /\ Returned
          /\ call.outcome.value # call.arg
    /\ (CalledOnObject("decodeKintoneRecord") /\ Returned) =>
          \A k \in ObjectEntryKeys :
             GetOwn(PropsOf(heap, call.outcome.value), k)
                 # GetOwn(PropsOf(heap, call.arg), k)

\* C21: for an object input whose type has a normalization rule,
\* normalizeFieldValue returns a newly created object that is not the input;
\* for RICH_TEXT, for every other type without a rule and for a missing
\* type it returns the input object itself, so the result and the input are
\* one object.  The fields inside the record decodeKintoneRecord returns
\* follow the same division.
C21_OutputFreshExactlyForTypesWithRule ==
    /\ CalledOnObject("normalizeFieldValue") =>
          /\ Returned
          /\ ArgType \in TypesWithRule =>
                /\ call.outcome.value = Ref(Len(heap))
                /\ call.arg.ref < Len(heap)
          /\ ArgType \notin TypesWithRule => call.outcome.value = call.arg
    /\ (CalledOnObject("decodeKintoneRecord") /\ Returned) =>
          \A k \in ObjectEntryKeys :
             LET given == GetOwn(PropsOf(heap, call.arg), k)
                 result == GetOwn(PropsOf(heap, call.outcome.value), k)
             IN  (result = given) <=> Get(heap, given, "type") \notin TypesWithRule

\* decodeKintoneRecord returned a record whose SUBTABLE field is the object
\* the caller handed in
C21_Witness ==
    /\ CalledOnObject("decodeKintoneRecord")
    /\ Returned
    /\ call.arg = input
    /\ "a" \in ObjectEntryKeys
    /\ Get(heap, Get(heap, input, "a"), "type") = Str("SUBTABLE")
    /\ Get(heap, call.outcome.value, "a") = Get(heap, input, "a")
    /\ Get(heap, call.outcome.value, "a").ref < input.ref

(***************************************************************************)
(* Properties of calls made by several callers, checked under SpecCallers. *)
(***************************************************************************)
\* an outcome with the value it returns spelled out
OutcomeStructure(h, outcome) ==
    IF outcome.kind = "return" THEN Return(Structure(h, outcome.value)) ELSE outcome

\* the outcome of the call when it is the only call ever made
OutcomeAlone(c) ==
    CASE c.op = "normalizeFieldValue" ->
           LET r == normalizeFieldValue(InitialHeap, c.arg)
           IN  OutcomeStructure(r.heap, r.outcome)
      [] c.op = "decodeKintoneRecord" ->
           LET r == decodeKintoneRecord(InitialHeap, c.arg)
           IN  OutcomeStructure(r.heap, r.outcome)
      [] c.op = "validateRecordForWrite" ->
           validateRecordForWrite(InitialHeap, c.arg).outcome
      [] c.op = "getEmptyValueForWrite" -> getEmptyValueForWrite(c.arg)

\* the record and the field of every caller are as the caller built them
CallersHoldWhatTheyBuilt ==
    \A c \in Callers :
        /\ heap[input[c].ref] = <<Prop("a", Ref(input[c].ref - 1))>>
        /\ heap[input[c].ref - 1] \in CallerFields

\* C22: no component holds shared mutable state: in every order in which
\* callers with arguments of their own call normalizeFieldValue,
\* decodeKintoneRecord, validateRecordForWrite and getEmptyValueForWrite, the
\* outcome of each call (the value returned or the error raised) is its
\* outcome when run alone, whatever calls were made before it and after it.
C22_OutcomeAsWhenRunAlone ==
    /\ CallersHoldWhatTheyBuilt
    /\ \A c \in Callers :
          call[c] # NoCall =>
              OutcomeStructure(heap, call[c].outcome) = OutcomeAlone(call[c])

\* caller 2 decoded its record before caller 1 normalized its field, both
\* after other calls, and validation of the record of caller 2 would raise
\* now as it would have at the start
C22_Witness ==
    /\ call[1] # NoCall /\ call[1].op = "normalizeFieldValue"
    /\ call[2] # NoCall /\ call[2].op = "decodeKintoneRecord"
    /\ call[1].outcome.value.ref = Len(heap)
    /\ call[2].outcome.value.ref < Len(heap) - 1
    /\ Len(heap) = HeldByCallers + MaxHeap
    /\ Get(heap, FieldOf(2), "type") = Str("RADIO_BUTTON")
    /\ Get(heap, FieldOf(2), "value") = Undefined
    /\ validateRecordForWrite(heap, input[2]).outcome = Return(Undefined)
    /\ validateRecordForWrite(heap, call[2].outcome.value).outcome.kind = "throw"

(***************************************************************************)
(* Properties of the write path, checked under SpecWrite.                  *)
(***************************************************************************)
\* the outcome of validateRecordForWrite on the record decodeKintoneRecord
\* returned
ValidatedAfterDecode == validateRecordForWrite(heap, call.outcome.value).outcome

IsValidationError(outcome) ==
    outcome.kind = "throw" /\ outcome.error.name = "KintoneValidationError"

\* neither normalizeFieldValue, on any entry of the record, nor
\* decodeKintoneRecord raised a KintoneValidationError
NormalizerRaisedNoValidationError ==
    /\ ~IsValidationError(call.outcome)
    /\ \A k \in Keys(ArgRecord) :
          ~IsValidationError(normalizeFieldValue(heap, GetOwn(ArgRecord, k)).outcome)

\* some entry of the record handed in is null or undefined
SomeEntryIsNoValue ==
    \E k \in Keys(ArgRecord) : GetOwn(ArgRecord, k) \in {Null, Undefined}

IsEmptyForWrite(field) ==
    LET type == Get(heap, field, "type")
        value == Get(heap, field, "value")
    IN  \/ type = Str("RADIO_BUTTON") /\ value \in {Undefined, Str(""), Null}
        \/ type \in {Str("CATEGORY"), Str("STATUS_ASSIGNEE")}
             /\ value \in {Undefined, Null, Arr(<<>>)}

\* the entries of the record handed in that are empty for the write
\* validator, in key order
EmptyEntries == SelectSeq(ObjectEntries(ArgRecord), LAMBDA e : IsEmptyForWrite(e.val))

\* C28: after normalization the emptiness test of the write validator is
\* uniform: for every record r of fields,
\* validateRecordForWrite(decodeKintoneRecord(r)) raises if and only if some
\* top-level field of r is a RADIO_BUTTON with undefined, '' or null, or a
\* CATEGORY or STATUS_ASSIGNEE with undefined, null or []; the error is for
\* the first such field in key order.
C28_UniformEmptinessAfterDecode ==
    (CalledOnObject("decodeKintoneRecord") /\ Returned /\ ~SomeEntryIsNoValue) =>
        /\ ValidatedAfterDecode.kind = "throw" <=> Len(EmptyEntries) > 0
        /\ Len(EmptyEntries) > 0 =>
              LET first == EmptyEntries[1]
                  type == Get(heap, first.val, "type")
              IN  ValidatedAfterDecode.error =
                      KintoneValidationError(type,
                          "Field \"" \o first.key \o "\": " \o EmptyValueMessage(type))

\* the record { __proto__: { type: 'RADIO_BUTTON', value: '' } } was
\* normalized into a record without entries, which the validator accepts
C28_Witness ==
    /\ CalledOnObject("decodeKintoneRecord")
    /\ call.arg = input
    /\ Keys(ArgRecord) = {"__proto__"}
    /\ Get(heap, GetOwn(ArgRecord, "__proto__"), "type") = Str("RADIO_BUTTON")
    /\ Get(heap, GetOwn(ArgRecord, "__proto__"), "value") = Str("")
    /\ Returned
    /\ Keys(PropsOf(heap, call.outcome.value)) = {}
    /\ ValidatedAfterDecode = Return(Undefined)
    /\ validateRecordForWrite(heap, input).outcome.kind = "throw"

\* the field { type, value: v } for the value v getEmptyValueForWrite returned
EmptyField == Inline(<<Prop("type", call.arg), Prop("value", call.outcome.value)>>)

\* C29: the write-empty value is a fixed point of normalization and passes
\* write validation: for every type on which getEmptyValueForWrite returns a
\* value v, recognized or not, normalizeFieldValue({type, value: v}) has the
\* value v and validateFieldForWrite({type, value: v}) returns normally.
C29_EmptyValueIsNormalAndValid ==
    (Called("getEmptyValueForWrite") /\ Returned) =>
        LET normalized == normalizeFieldValue(heap, EmptyField)
        IN  /\ normalized.outcome.kind = "return"
            /\ Get(normalized.heap, normalized.outcome.value, "value") = call.outcome.value
            /\ Get(normalized.heap, normalized.outcome.value, "type") = call.arg
            /\ validateFieldForWrite(heap, EmptyField) = Return(Undefined)

\* the empty value of a DROP_DOWN, null, which normalization would also
\* produce from ''
C29_Witness ==
    /\ Called("getEmptyValueForWrite")
    /\ call.arg = Str("DROP_DOWN")
    /\ Returned
    /\ normalizeFieldValue(heap, EmptyField).outcome.kind = "return"
    /\ validateFieldForWrite(heap, EmptyField) = Return(Undefined)

(***************************************************************************)
(* Properties of SubtableFieldSchema, checked under SpecSubtable.          *)
(***************************************************************************)
\* the rows of the subtable handed in
ArgRows == Get(heap, call.arg, "value").items

\* the inner fields of its rows
ArgInnerFields ==
    UNION {LET record == PropsOf(heap, Get(heap, ArgRows[i], "value"))
           IN  {record[j].val : j \in 1..Len(record)} : i \in 1..Len(ArgRows)}

\* FILE, the system types and SUBTABLE
IllegalInSubtable ==
    {Str(t) : t \in {"FILE", "RECORD_NUMBER", "RECORD_ID", "REVISION", "CREATOR",
                     "CREATED_TIME", "MODIFIER", "UPDATED_TIME", "STATUS",
                     "STATUS_ASSIGNEE", "CATEGORY", "SUBTABLE"}}

InnerType(f) == Get(heap, f, "type")

InnerShaped(f) == HasDeclaredShape(InnerType(f), Get(heap, f, "value"))

EveryRowHasId == \A i \in 1..Len(ArgRows) : IsString(Get(heap, ArgRows[i], "id"))

EmptyFieldDecoded ==
    IF call.arg = Str("SUBTABLE")
    THEN decodeSubtableField(heap, EmptyField)
    ELSE decodeUnknownSync(heap, EmptyField)

\* C30: the write-empty value always has the shape its tag declares: for
\* every tag of KintoneFieldType on which getEmptyValueForWrite returns a
\* value v, the fallback tags included, the field {type, value: v} is
\* accepted by the structural schema of that tag and decodes to itself.
C30_EmptyValueHasDeclaredShape ==
    (/\ Called("getEmptyValueForWrite")
     /\ Returned
     /\ call.arg \in {Str(t) : t \in KintoneFieldType}) =>
        /\ EmptyFieldDecoded.outcome.kind = "return"
        /\ PropsOf(EmptyFieldDecoded.heap, EmptyFieldDecoded.outcome.value)
             = EmptyField.props

\* getEmptyValueForWrite('SUBTABLE') returned '', which SubtableFieldSchema
\* rejects
C30_Witness ==
    /\ Called("getEmptyValueForWrite")
    /\ call.arg = Str("SUBTABLE")
    /\ call.outcome = Return(Str(""))
    /\ EmptyFieldDecoded.outcome = Throw(ParseError)

(***************************************************************************)
(* Properties of the form configuration schemas, checked under SpecForm.   *)
(***************************************************************************)
\* the properties handed in were decoded with the schema of their own type
DecodedWithOwnSchema ==
    /\ Called("decodeProperties")
    /\ call.arg.kind = "object"
    /\ call.schema = Get(heap, call.arg, "type").str

ArgCode == Get(heap, call.arg, "code")

\* hiragana, katakana (full and half width), kanji, alphanumerics (half and
\* full width), underscore, middle dot (each half and full width) and the
\* currency symbols
AllowedInFieldCode(c) ==
    \/ c \in 12352..12447
    \/ c \in 12448..12543 \/ c \in 65382..65439
    \/ c \in 19968..40879
    \/ c \in 48..57 \/ c \in 65..90 \/ c \in 97..122
    \/ c \in 65296..65305 \/ c \in 65313..65338 \/ c \in 65345..65370
    \/ c \in {95, 65343}
    \/ c \in {65381, 12539}
    \/ c \in {36, 65284, 65509, 8364, 65505, 65510, 165}

\* non-empty, every character allowed, no half-width digit in front
IsWellFormedCode(v) ==
    /\ IsText(v)
    /\ Len(v.units) > 0
    /\ \A i \in 1..Len(v.units) : AllowedInFieldCode(v.units[i])
    /\ v.units[1] \notin 48..57

\* the system fields and the code reserved for each
ReservedCodeOf ==
    [STATUS |-> <<12473, 12486, 12540, 12479, 12473>>,
     STATUS_ASSIGNEE |-> <<20316, 26989, 32773>>,
     CATEGORY |-> <<12459, 12486, 12468, 12522, 12540>>,
     RECORD_NUMBER |-> <<12524, 12467, 12540, 12489, 30058, 21495>>,
     CREATOR |-> <<20316, 25104, 32773>>,
     CREATED_TIME |-> <<20316, 25104, 26085, 26178>>,
     MODIFIER |-> <<26356, 26032, 32773>>,
     UPDATED_TIME |-> <<26356, 26032, 26085, 26178>>]

ReservedWords ==
    {ReservedCodeOf[t] : t \in DOMAIN ReservedCodeOf}
    \cup {<<95, 95, 82, 79, 79, 84, 95, 95>>, <<110, 111, 116>>}

DecodedSubtableProperties ==
    /\ Called("decodeProperties")
    /\ call.schema = "SUBTABLE"
    /\ Get(heap, call.arg, "type") = Str("SUBTABLE")

\* the inner fields of the subtable handed in
ArgInnerProperties ==
    LET fields == PropsOf(heap, Get(heap, call.arg, "fields"))
    IN  {fields[i].val : i \in 1..Len(fields)}

\* the types the documentation lists for the inside of a subtable
DocumentedInSubtable ==
    {Str(t) : t \in {"SINGLE_LINE_TEXT", "MULTI_LINE_TEXT", "RICH_TEXT", "NUMBER",
                     "CALC", "CHECK_BOX", "RADIO_BUTTON", "DROP_DOWN", "MULTI_SELECT",
                     "DATE", "TIME", "DATETIME", "LINK"}}

\* the fields that select entities, and FILE
AlsoInSubtable ==
    {Str(t) : t \in {"USER_SELECT", "ORGANIZATION_SELECT", "GROUP_SELECT", "FILE"}}

\* the inner field carries the properties every inner field must have
HasBaseProperties(f) ==
    \A name \in {"type", "code", "label", "noLabel", "required"} :
        HasOwn(PropsOf(heap, f), name)

IsIdentifierName(units) ==
    /\ Len(units) > 0
    /\ Category(units[1]) \in {"L", "Nl"} \/ units[1] \in {36, 95}
    /\ \A i \in 2..Len(units) :
          Category(units[i]) \in {"L", "Nl", "Mn", "Mc", "Nd", "Pc"} \/ units[i] = 36

\* C27: for every field code, the variable name that
\* fieldConfigToTypeScriptCode generates (toVariableName) is a valid
\* JavaScript identifier: characters that are not allowed in an identifier
\* are sanitized away, also when the code starts with a digit or with '$' and
\* contains such a character (e.g. a hyphen).
C27_VariableNameIsIdentifier ==
    Called("toVariableName") => IsIdentifierName(call.outcome.value.units)

\* the code '$-' became the variable name '$-Field'
C27_Witness ==
    /\ Called("toVariableName")
    /\ call.arg = Text(<<36, 45>>)
    /\ call.outcome = Return(Text(<<36, 45>> \o FieldSuffix))
    /\ ~IsIdentifierName(call.outcome.value.units)

====
